---- MODULE Spec2Model ----
(***************************************************************************)
(* Model of the transcriptor pipeline: the fetch stage (index.js), the     *)
(* describe stage (generate-descriptions.cjs), the publish stage           *)
(* (push-descriptions.cjs) and the tools of the MCP server                 *)
(* (save_blog_post, list_blog_posts, read_blog_post, list_transcripts,     *)
(* generate_description) and the blog conversion script.                   *)
(*                                                                         *)
(* One operating-system process runs at a time (the pipeline is            *)
(* sequential).  The disk (directories and ledger files) and the remote    *)
(* video metadata persist between runs; everything else is memory of the   *)
(* running process and is lost when the run ends or is killed. Strings     *)
(* that the code inspects character by character (titles, file names) are  *)
(* sequences of one-character strings.                                     *)
(*                                                                         *)
(* Spec runs the three scripts from a fresh checkout.  SpecPublish runs    *)
(* the publish stage alone on the disk that a fetch run and a describe run *)
(* leave behind, with or without a token file and with the client's token  *)
(* refreshes.  SpecPages applies getPlaylistVideos to playlists of several *)
(* pages.  SpecAll interleaves the scripts with calls of the MCP server.   *)
(* SpecFunctions applies the pure functions (the description of a          *)
(* transcript, the description tool, the transcript's file name, the       *)
(* description paths, the id read back from a transcript file) to          *)
(* enumerated arguments.  SpecMcp calls the blog post tools,               *)
(* list_transcripts and a tool the server does not have, on an output      *)
(* directory with any of the sample posts and a processed-log file in any  *)
(* condition.  SpecRace takes two save_blog_post requests through the      *)
(* handler await by await.  SpecBlog runs the fetch stage and then the     *)
(* blog conversion script on its summary.  SpecOperator runs the scripts   *)
(* on the disk that complete runs of the three stages leave behind, after  *)
(* one hand edit of the operator: an entry removed from a ledger, a ledger *)
(* file left unparseable or without its map, an artifact deleted or        *)
(* copied.                                                                 *)
(***************************************************************************)
EXTENDS Integers, Sequences, FiniteSets, TLC

\* ---------------------------------------------------------------- bounds
NumVideos == 2      \* videos in the channel's uploads playlist
MaxClock  == 4      \* process starts in one behaviour
MaxCalls  == 1      \* tool calls of the MCP server between the scripts' runs
MaxSession == 3     \* tool calls of the MCP server in one behaviour
MaxToolTags == 4    \* tags in one generate_description call
MaxItems  == 101    \* items of a playlist handed to getPlaylistVideos

\* ------------------------------------------------------ program constants
SliceLen == 100     \* sanitizeFilename: .slice(0, 100)
PageSize == 50      \* getPlaylistVideos: maxResults: 50
TagLimit == 5       \* categorizeVideo keeps the first five tags
HashtagLimit == 3   \* generate_description keeps the first three tags
SlugLen == 80       \* slugify: .substring(0, 80)

None == "none"

\* ----------------------------------------------------------- the channel
\* The uploads playlist, newest first.  The third and fourth titles
\* sanitize to names that other titles also sanitize to.
Channel ==
  << [videoId |-> "v1", title |-> <<"A", " ", "b">>],
     [videoId |-> "v2", title |-> <<"C", "?">>],
     [videoId |-> "v3", title |-> <<"A", " ", " ", "b">>],
     [videoId |-> "v4", title |-> <<"C">>] >>

catalogue == SubSeq(Channel, 1, NumVideos)

VideoIds == { Channel[n].videoId : n \in 1..NumVideos }

\* ------------------------------------------------------- string helpers
Forbidden == {"<", ">", ":", "\"", "/", "\\", "|", "?", "*"}
Whitespace == {" ", "\t", "\n"}

MD   == <<".", "m", "d">>
DESC == <<"_", "d", "e", "s", "c", "r", "i", "p", "t", "i", "o", "n", ".", "t", "x", "t">>

RECURSIVE removeForbidden(_)
removeForbidden(s) ==
  IF s = <<>> THEN <<>>
  ELSE IF Head(s) \in Forbidden THEN removeForbidden(Tail(s))
  ELSE <<Head(s)>> \o removeForbidden(Tail(s))

\* .replace(/\s+/g, '_'): every maximal run of whitespace becomes one "_"
RECURSIVE collapseWhitespace(_)
collapseWhitespace(s) ==
  IF s = <<>> THEN <<>>
  ELSE IF Head(s) \in Whitespace
       THEN IF Len(s) > 1 /\ s[2] \in Whitespace
            THEN collapseWhitespace(Tail(s))
            ELSE <<"_">> \o collapseWhitespace(Tail(s))
       ELSE <<Head(s)>> \o collapseWhitespace(Tail(s))

slice(s, n) == SubSeq(s, 1, IF Len(s) < n THEN Len(s) ELSE n)

sanitizeFilename(name) == slice(collapseWhitespace(removeForbidden(name)), SliceLen)

endsWith(s, suf) ==
  /\ Len(s) >= Len(suf)
  /\ SubSeq(s, Len(s) - Len(suf) + 1, Len(s)) = suf

\* String.prototype.replace with a string pattern: first occurrence only
replaceFirst(s, pat, rep) ==
  LET hits == { k \in 1..(Len(s) - Len(pat) + 1) : SubSeq(s, k, k + Len(pat) - 1) = pat }
  IN IF hits = {} THEN s
     ELSE LET k == CHOOSE x \in hits : \A y \in hits : x <= y
          IN SubSeq(s, 1, k - 1) \o rep \o SubSeq(s, k + Len(pat), Len(s))

\* ------------------------------------------------------------ functions
EmptyMap == [x \in {} |-> None]

Put(f, k, v) == [x \in (DOMAIN f) \cup {k} |-> IF x = k THEN v ELSE f[x]]

\* a directory listing: the names of a directory as a sequence
RECURSIVE readdir(_)
readdir(S) ==
  IF S = {} THEN <<>>
  ELSE LET x == CHOOSE y \in S : TRUE IN <<x>> \o readdir(S \ {x})

\* ---------------------------------------------------------------- state
VARIABLES
  transcriptsDir,   \* whether the directory ./transcripts exists
  transcripts,      \* ./transcripts: file name -> transcript content
  descriptions,     \* ./descriptions: file name -> description content
  downloaded,       \* downloaded.json, the "downloaded" map
  processedDesc,    \* descriptions_processed.json, the "processed" map
  pushed,           \* descriptions_pushed.json, the "pushed" map
  damaged,          \* per ledger file: "no", or how a hand edit left it
  summary,          \* ./transcripts/_summary.json: <<>> or <<the summary>>
  blogPosts,        \* ./blog-posts: file name -> content
  processedLog,     \* processed.json of the MCP server, the "processed" map
  remote,           \* snippet of each video at YouTube
  tokenFile,        \* ./youtube_tokens.json: NoTokens (no file) or the record
  tokens,           \* publish: the record getAuthClient loaded
  emitted,          \* publish: what the 'tokens' event of the last call carried
  currentSnippet,   \* publish: the snippet getVideoDetails returned
  pager,            \* a call of getPlaylistVideos: its arguments and its result
  clock,            \* wall clock of the scripts, advanced by every process start
  calls,            \* wall clock of the MCP server, advanced by every tool call
  reply,            \* the result of the MCP server's last tool call
  inflight,         \* the save_blog_post requests the server is handling
  probe,            \* the call under observation: its arguments and, for a pure
                    \* function, its result
  edit,             \* the hand edit the operator made before the runs
  stage,            \* the script that is running or ran last (None once killed)
  pc,               \* where the running script is
  mode,             \* command line of the publish stage
  log,              \* the ledger object in memory
  cands,            \* videos / files / updates: the run's candidate list
  i,                \* loop index into cands (1-based)
  results,          \* fetch: the results array
  skipped, newDownloads, processed, successCount, errorCount,
  failed,           \* describe: items whose processing threw (logged only)
  loaded,           \* the ledger as it was loaded at the start of the run
  flushes,          \* successful ledger writes of this run
  requested,        \* keys for which this run made an external request
  written,          \* keys whose artifact this run wrote
  completed,        \* keys this run processed to success
  attempted,        \* keys this run did not skip
  keysAtStart,      \* keys in the stage's ledger file when the run started
  paced             \* no per-item external call since the last delay

disk    == <<transcriptsDir, transcripts, descriptions, downloaded, processedDesc,
             pushed, summary, damaged>>
server  == <<blogPosts, processedLog, calls, reply, inflight>>
counters == <<skipped, newDownloads, processed, successCount, errorCount, failed>>
ghost   == <<loaded, keysAtStart, flushes, requested, written, completed,
             attempted, paced>>
auth    == <<tokenFile, tokens, emitted, currentSnippet>>
vars == <<disk, server, remote, auth, pager, probe, edit, clock, stage, pc, mode, log, cands, i,
          results, counters, ghost>>

Stages == {"fetch", "describe", "publish"}

\* positions at which no process is running
Over == {"idle", "done", "aborted", "killed", "fatal", "typeError", "exited", "listed",
         "nothing"}

NoMode == [dryRun |-> FALSE, listOnly |-> FALSE, singleVideo |-> None]

\* ------------------------------------------------------ the ledger files
Ledgers == {"downloaded", "processedDesc", "pushed", "processedLog"}

\* the condition of a ledger file: "no" damage; "syntax": JSON.parse throws
\* on it (the entries are still in the text); "shape": it parses to a value
\* without the map of entries, such as {}
NoDamage == [l \in Ledgers |-> "no"]

NoEdit == [kind |-> "none", target |-> None, key |-> None]

\* no tool was called yet / no function is under observation
NoReply == [isError |-> FALSE, tool |-> None, text |-> <<>>]

NoProbe == EmptyMap

\* the two connections' requests, none of them being handled
NoRequests == [r \in {1, 2} |-> [at |-> "idle", args |-> <<>>, log |-> <<>>]]

\* ---------------------------------------------------- credential records
\* a record is a function from field names to values; the empty function
\* stands for "no record" (no token file, no 'tokens' event)
NoTokens == EmptyMap

\* what youtube-auth.cjs stored after the consent flow
Token0 == [access_token |-> "a0", refresh_token |-> "r0"]

\* what a 'tokens' event can carry: a new access token, with or without a
\* new refresh token
Refreshes ==
  { [access_token |-> "a1"],
    [access_token |-> "a2", refresh_token |-> "r2"] }

\* { ...a, ...b }
spread(a, b) ==
  [k \in (DOMAIN a) \cup (DOMAIN b) |-> IF k \in DOMAIN b THEN b[k] ELSE a[k]]

\* ------------------------------------------------------ remote metadata
NoDescription == [hook |-> <<>>, hashtags |-> <<>>]

NoSnippet == EmptyMap

\* the snippet of an uploaded video before the pipeline touched it; the
\* owner tagged the odd-numbered uploads only
snippet0(n) ==
  LET base == [title |-> Channel[n].title, description |-> NoDescription,
               categoryId |-> "22", defaultLanguage |-> "en"]
  IN IF n % 2 = 1 THEN spread(base, [tags |-> <<"minis">>]) ELSE base

\* the memory of a process that has not started, and the ghost variables
InitMemory ==
  /\ stage = None
  /\ pc = "idle"
  /\ mode = NoMode
  /\ log = EmptyMap
  /\ cands = <<>>
  /\ i = 1
  /\ results = <<>>
  /\ skipped = 0 /\ newDownloads = 0 /\ processed = 0
  /\ successCount = 0 /\ errorCount = 0 /\ failed = 0
  /\ tokens = NoTokens
  /\ emitted = NoTokens
  /\ currentSnippet = NoSnippet
  /\ loaded = EmptyMap
  /\ flushes = 0
  /\ requested = {}
  /\ written = {}
  /\ completed = {}
  /\ attempted = {}
  /\ keysAtStart = {}
  /\ paced = TRUE

\* nothing edited by hand, no tool called, no function under observation
Untampered ==
  /\ damaged = NoDamage
  /\ edit = NoEdit

Unobserved ==
  /\ reply = NoReply
  /\ probe = NoProbe
  /\ inflight = NoRequests

\* no getPlaylistVideos call under observation
NoCall == [total |-> 0, maxResults |-> <<>>, returned |-> TRUE, videos |-> <<>>,
           requests |-> 0]

\* a fresh checkout whose operator has run youtube-auth.cjs
Init ==
  /\ transcriptsDir = FALSE
  /\ transcripts = EmptyMap
  /\ descriptions = EmptyMap
  /\ downloaded = EmptyMap
  /\ processedDesc = EmptyMap
  /\ pushed = EmptyMap
  /\ summary = <<>>
  /\ blogPosts = EmptyMap
  /\ processedLog = EmptyMap
  /\ remote = [v \in VideoIds |->
                 snippet0(CHOOSE n \in 1..NumVideos : Channel[n].videoId = v)]
  /\ tokenFile = Token0
  /\ pager = NoCall
  /\ clock = 0
  /\ calls = 0
  /\ InitMemory
  /\ Untampered
  /\ Unobserved

\* the entries written in the ledger file of a stage
ledgerFile(st) ==
  CASE st = "fetch" -> downloaded
    [] st = "describe" -> processedDesc
    [] st = "publish" -> pushed
    [] OTHER -> EmptyMap

\* a process starts: fresh memory
Fresh(st, m, l) ==
  /\ pc \in Over
  /\ clock < MaxClock
  /\ clock' = clock + 1
  /\ stage' = st
  /\ mode' = m
  /\ log' = l
  /\ loaded' = l
  /\ i' = 1
  /\ results' = <<>>
  /\ skipped' = 0 /\ newDownloads' = 0 /\ processed' = 0
  /\ successCount' = 0 /\ errorCount' = 0 /\ failed' = 0
  /\ tokens' = NoTokens
  /\ emitted' = NoTokens
  /\ currentSnippet' = NoSnippet
  /\ flushes' = 0
  /\ requested' = {}
  /\ written' = {}
  /\ completed' = {}
  /\ attempted' = {}
  /\ keysAtStart' = DOMAIN ledgerFile(st)
  /\ paced' = TRUE

\* ------------------------------------------------------------ the ledgers
\* JSON.parse of the ledger file succeeds / the parsed value has the map of
\* entries.  Only the running stage writes its ledger file, so the file is
\* in the condition in which the run loaded it until the run saves it.
parses(ledger) == damaged[ledger] # "syntax"

hasMap(ledger) == damaged[ledger] # "shape"

\* load: the catch returns the empty ledger; a file that parses is returned
\* as it is, with whatever entries its map holds
load(ledger, entries) == IF parses(ledger) /\ hasMap(ledger) THEN entries ELSE EmptyMap

\* writing a ledger that was loaded from an unparseable file replaces the
\* file by a well-formed one
saved(ledger) == [damaged EXCEPT ![ledger] = IF @ = "syntax" THEN "no" ELSE @]

loadLog == load("downloaded", downloaded)

alreadyDownloaded_Never(l, videoId) == FALSE

\* the check made on the artifact instead of the ledger
alreadyDownloaded_ByArtifact(l, videoId) ==
  \E f \in DOMAIN transcripts : transcripts[f].videoId = videoId

alreadyDownloaded(l, videoId) == videoId \in DOMAIN l

\* ============================================================ fetch stage
\* main: environment validation (process.exit(1) when a variable is
\* missing), mkdir of ./transcripts and loadLog
StartFetch(envOk) ==
  /\ Fresh("fetch", NoMode, loadLog)
  /\ cands' = <<>>
  /\ pc' = IF envOk THEN "enumerate" ELSE "exited"
  /\ transcriptsDir' = (transcriptsDir \/ envOk)
  /\ UNCHANGED <<damaged, transcripts, descriptions, downloaded, processedDesc, pushed, summary,
                 server, tokenFile, pager, probe, edit, remote>>

\* ------------------------------------------------------ getPlaylistVideos
\* An optional value is <<>> (null, undefined) or <<x>>.
\* The playlistItems endpoint asked for pages of PageSize items: the page
\* that starts at the token's offset, and the token of the page after it
playlistItems(items, pageToken) ==
  LET from == IF pageToken = <<>> THEN 0 ELSE pageToken[1]
      to   == IF from + PageSize < Len(items) THEN from + PageSize ELSE Len(items)
  IN [items |-> SubSeq(items, from + 1, to),
      nextPageToken |-> IF to < Len(items) THEN <<to>> ELSE <<>>]

\* the truth value JavaScript gives an optional count
truthy_Never(x) == FALSE

truthy(x) == x # <<>> /\ x[1] # 0

\* the do-while loop from one request on; "requests" counts the pages asked
RECURSIVE getPages(_, _, _, _, _)
getPages(items, maxResults, videos, pageToken, requests) ==
  LET data == playlistItems(items, pageToken)
      all  == videos \o data.items
  IN IF truthy(maxResults) /\ data.items # <<>> /\ Len(all) >= maxResults[1]
     THEN [videos |-> SubSeq(all, 1, maxResults[1]), requests |-> requests + 1]
     ELSE IF data.nextPageToken # <<>>
          THEN getPages(items, maxResults, all, data.nextPageToken, requests + 1)
          ELSE [videos |-> all, requests |-> requests + 1]

getPlaylistVideos(items, maxResults) == getPages(items, maxResults, <<>>, <<>>, 0)

\* a playlist of "total" items, named by their position
Playlist(total) == [n \in 1..total |-> n]

\* a call getPlaylistVideos(playlistId, maxResults) on its own
CallGetPlaylistVideos ==
  /\ ~pager.returned
  /\ LET r == getPlaylistVideos(Playlist(pager.total), pager.maxResults)
     IN pager' = [pager EXCEPT !.returned = TRUE, !.videos = r.videos,
                               !.requests = r.requests]
  /\ UNCHANGED <<disk, server, remote, auth, probe, edit, clock, stage, pc, mode, log,
                 cands, i, results, counters, ghost>>

FetchEnumerate_WritesSummary(found) ==
  /\ stage = "fetch" /\ pc = "enumerate"
  /\ IF found
     THEN /\ cands' = getPlaylistVideos(catalogue, <<>>).videos
          /\ pc' = "loop"
          /\ summary' = summary
     ELSE /\ cands' = cands
          /\ pc' = "fatal"
          /\ summary' = <<[totalVideos |-> 0, skipped |-> 0, newDownloads |-> 0,
                          transcriptsFound |-> 0, transcriptsNotFound |-> 0,
                          videos |-> <<>>]>>
  /\ UNCHANGED <<damaged, transcriptsDir, transcripts, descriptions, downloaded, processedDesc,
                 pushed, server, auth, pager, probe, edit, remote, clock, stage, mode, log, i,
                 results, counters, ghost>>

\* getUploadsPlaylistId and getPlaylistVideos(uploadsPlaylistId); either
\* throws when the channel is not found or the API answers with an error
FetchEnumerate(found) ==
  /\ stage = "fetch" /\ pc = "enumerate"
  /\ IF found
     THEN cands' = getPlaylistVideos(catalogue, <<>>).videos /\ pc' = "loop"
     ELSE cands' = cands /\ pc' = "fatal"
  /\ UNCHANGED <<disk, server, auth, pager, probe, edit, remote, clock, stage, mode, log, i, results,
                 counters, ghost>>

FetchSkip_NoCount ==
  /\ stage = "fetch" /\ pc = "loop" /\ i <= Len(cands)
  /\ alreadyDownloaded(log, cands[i].videoId)
  /\ i' = i + 1
  /\ UNCHANGED <<disk, server, auth, pager, probe, edit, remote, clock, stage, pc, mode, log, cands, results,
                 counters, ghost>>

FetchSkip ==
  /\ stage = "fetch" /\ pc = "loop" /\ i <= Len(cands)
  /\ alreadyDownloaded(log, cands[i].videoId)
  /\ skipped' = skipped + 1
  /\ i' = i + 1
  /\ UNCHANGED <<disk, server, auth, pager, probe, edit, remote, clock, stage, pc, mode, log, cands, results,
                 newDownloads, processed, successCount, errorCount, failed, ghost>>

FetchBegin ==
  /\ stage = "fetch" /\ pc = "loop" /\ i <= Len(cands)
  /\ ~alreadyDownloaded(log, cands[i].videoId)
  /\ IF hasMap("downloaded")
     THEN pc' = "transcript" /\ attempted' = attempted \cup {cands[i].videoId}
     ELSE pc' = "typeError" /\ attempted' = attempted
  /\ UNCHANGED <<disk, server, auth, pager, probe, edit, remote, clock, stage, mode, log, cands, i, results,
                 counters, keysAtStart, loaded, flushes, requested, written, completed, paced>>

\* getTranscript: a thrown error and an empty answer both become null
getTranscript(answer) == IF answer = "segments" THEN "text" ELSE None

FetchGetTranscript_RecordsUnavailable(answer) ==
  /\ stage = "fetch" /\ pc = "transcript"
  /\ requested' = requested \cup {cands[i].videoId}
  /\ IF getTranscript(answer) # None
     THEN /\ pc' = "write"
          /\ UNCHANGED <<results, log>>
     ELSE /\ pc' = "delay"
          /\ results' = Append(results, [videoId |-> cands[i].videoId,
                                         title |-> cands[i].title,
                                         hasTranscript |-> FALSE])
          /\ log' = Put(log, cands[i].videoId,
                        [title |-> cands[i].title, filename |-> <<>>,
                         downloadedAt |-> clock])
  /\ paced' = FALSE
  /\ UNCHANGED <<disk, server, auth, pager, probe, edit, remote, clock, stage, mode, cands, i,
                 counters, attempted, keysAtStart, loaded, flushes, written, completed>>

FetchGetTranscript(answer) ==
  /\ stage = "fetch" /\ pc = "transcript"
  /\ requested' = requested \cup {cands[i].videoId}
  /\ IF getTranscript(answer) # None
     THEN /\ pc' = "write"
          /\ results' = results
     ELSE /\ pc' = "delay"
          /\ results' = Append(results, [videoId |-> cands[i].videoId,
                                         title |-> cands[i].title,
                                         hasTranscript |-> FALSE])
  /\ paced' = FALSE
  /\ UNCHANGED <<disk, server, auth, pager, probe, edit, remote, clock, stage, mode, log, cands, i,
                 counters, attempted, keysAtStart, loaded, flushes, written, completed>>

transcriptFilename(video) == sanitizeFilename(video.title) \o MD

\* the log entry without the file
FetchWrite_NoArtifact(ok) ==
  /\ stage = "fetch" /\ pc = "write"
  /\ LET video == cands[i]
         filename == transcriptFilename(video)
     IN IF ok
        THEN /\ log' = Put(log, video.videoId,
                           [title |-> video.title, filename |-> filename,
                            downloadedAt |-> clock])
             /\ results' = Append(results, [videoId |-> video.videoId,
                                            title |-> video.title,
                                            hasTranscript |-> TRUE,
                                            filepath |-> filename])
             /\ newDownloads' = newDownloads + 1
             /\ completed' = completed \cup {video.videoId}
             /\ pc' = "delay"
             /\ UNCHANGED <<damaged, transcripts, written>>
        ELSE /\ pc' = "aborted"
             /\ UNCHANGED <<damaged, transcripts, log, results, newDownloads, written, completed>>
  /\ UNCHANGED <<damaged, transcriptsDir, descriptions, downloaded, processedDesc, pushed, summary, server, auth, pager, probe, edit,
                 remote, clock, stage, mode, cands, i, skipped, processed,
                 successCount, errorCount, failed, attempted, paced, keysAtStart, loaded, flushes, requested>>

\* fs.writeFile of the transcript, then the in-memory log entry
FetchWrite(ok) ==
  /\ stage = "fetch" /\ pc = "write"
  /\ LET video == cands[i]
         filename == transcriptFilename(video)
     IN IF ok
        THEN /\ transcripts' = Put(transcripts, filename,
                                   [title |-> video.title, videoId |-> video.videoId,
                                    body |-> "text"])
             /\ log' = Put(log, video.videoId,
                           [title |-> video.title, filename |-> filename,
                            downloadedAt |-> clock])
             /\ results' = Append(results, [videoId |-> video.videoId,
                                            title |-> video.title,
                                            hasTranscript |-> TRUE,
                                            filepath |-> filename])
             /\ newDownloads' = newDownloads + 1
             /\ written' = written \cup {video.videoId}
             /\ completed' = completed \cup {video.videoId}
             /\ pc' = "delay"
        ELSE /\ pc' = "aborted"
             /\ UNCHANGED <<damaged, transcripts, log, results, newDownloads, written, completed>>
  /\ UNCHANGED <<damaged, transcriptsDir, descriptions, downloaded, processedDesc, pushed, summary, server, auth, pager, probe, edit,
                 remote, clock, stage, mode, cands, i, skipped, processed,
                 successCount, errorCount, failed, attempted, paced, keysAtStart, loaded, flushes, requested>>

FetchDelay ==
  /\ stage = "fetch" /\ pc = "delay"
  /\ i' = i + 1
  /\ pc' = "loop"
  /\ paced' = TRUE
  /\ UNCHANGED <<disk, server, auth, pager, probe, edit, remote, clock, stage, mode, log, cands, results,
                 counters, keysAtStart, loaded, flushes, requested, written, completed, attempted>>

\* saveLog(log) after the loop
FetchSaveLog(ok) ==
  /\ stage = "fetch" /\ pc = "loop" /\ i > Len(cands)
  /\ IF ok
     THEN /\ downloaded' = log /\ flushes' = flushes + 1 /\ pc' = "summary"
          /\ damaged' = saved("downloaded")
     ELSE /\ downloaded' = downloaded /\ flushes' = flushes /\ pc' = "aborted"
          /\ damaged' = damaged
  /\ UNCHANGED <<transcriptsDir, transcripts, descriptions, processedDesc, pushed, summary, server, auth, pager, probe, edit,
                 remote, clock, stage, mode, log, cands, i, results, counters,
                 attempted, paced, keysAtStart, loaded, requested, written, completed>>

notFound(rs) == Len(SelectSeq(rs, LAMBDA r : ~r.hasTranscript))

FetchSummary(ok) ==
  /\ stage = "fetch" /\ pc = "summary"
  /\ IF ok
     THEN /\ summary' = <<[totalVideos |-> Len(cands), skipped |-> skipped,
                         newDownloads |-> newDownloads,
                         transcriptsFound |-> Len(results) - notFound(results),
                         transcriptsNotFound |-> notFound(results),
                         videos |-> results]>>
          /\ pc' = "done"
     ELSE summary' = summary /\ pc' = "aborted"
  /\ UNCHANGED <<damaged, transcriptsDir, transcripts, descriptions, downloaded, processedDesc,
                 pushed, server, auth, pager, probe, edit,
                 remote, clock, stage, mode, log, cands, i, results, counters, ghost>>

Fetch ==
  \/ \E envOk \in BOOLEAN : StartFetch(envOk)
  \/ \E found \in BOOLEAN : FetchEnumerate(found)
  \/ FetchSkip
  \/ FetchBegin
  \/ \E answer \in {"segments", "empty", "error"} : FetchGetTranscript(answer)
  \/ \E ok \in BOOLEAN : FetchWrite(ok)
  \/ FetchDelay
  \/ \E ok \in BOOLEAN : FetchSaveLog(ok)
  \/ \E ok \in BOOLEAN : FetchSummary(ok)

\* ========================================================= describe stage
loadLogDesc == load("processedDesc", processedDesc)

\* the transcript files of ./transcripts
transcriptFiles == SelectSeq(readdir(DOMAIN transcripts), LAMBDA f : endsWith(f, MD))

\* ------------------------------------------------- description helpers
LowerCase ==
  "A" :> "a" @@ "B" :> "b" @@ "C" :> "c" @@ "D" :> "d" @@ "E" :> "e" @@ "F" :> "f" @@
  "G" :> "g" @@ "H" :> "h" @@ "I" :> "i" @@ "J" :> "j" @@ "K" :> "k" @@ "L" :> "l" @@
  "M" :> "m" @@ "N" :> "n" @@ "O" :> "o" @@ "P" :> "p" @@ "Q" :> "q" @@ "R" :> "r" @@
  "S" :> "s" @@ "T" :> "t" @@ "U" :> "u" @@ "V" :> "v" @@ "W" :> "w" @@ "X" :> "x" @@
  "Y" :> "y" @@ "Z" :> "z"

toLowerCase(s) ==
  [k \in 1..Len(s) |-> IF s[k] \in DOMAIN LowerCase THEN LowerCase[s[k]] ELSE s[k]]

includes(s, p) == \E k \in 1..(Len(s) - Len(p) + 1) : SubSeq(s, k, k + Len(p) - 1) = p

\* .replace(/\s+/g, '')
removeWhitespace(s) == SelectSeq(s, LAMBDA c : c \notin Whitespace)

\* [...new Set(tags)]: the first occurrence of every element, in order
RECURSIVE dedupe(_)
dedupe(s) ==
  IF s = <<>> THEN <<>>
  ELSE LET init == dedupe(SubSeq(s, 1, Len(s) - 1))
           last == s[Len(s)]
       IN IF \E k \in 1..Len(init) : init[k] = last THEN init ELSE Append(init, last)

\* the hashtags of categorizeVideo, spelled out
Hashtag ==
  [ miniaturepainting |-> <<"m", "i", "n", "i", "a", "t", "u", "r", "e", "p", "a", "i", "n", "t", "i", "n", "g">>,
    hobbypainting |-> <<"h", "o", "b", "b", "y", "p", "a", "i", "n", "t", "i", "n", "g">>,
    hobbytutorial |-> <<"h", "o", "b", "b", "y", "t", "u", "t", "o", "r", "i", "a", "l">>,
    hobbyvlog |-> <<"h", "o", "b", "b", "y", "v", "l", "o", "g">>,
    warmachine |-> <<"w", "a", "r", "m", "a", "c", "h", "i", "n", "e">>,
    trenchcrusade |-> <<"t", "r", "e", "n", "c", "h", "c", "r", "u", "s", "a", "d", "e">>,
    dolmenwood |-> <<"d", "o", "l", "m", "e", "n", "w", "o", "o", "d">>,
    ttrpg |-> <<"t", "t", "r", "p", "g">>,
    warhammer |-> <<"w", "a", "r", "h", "a", "m", "m", "e", "r">>,
    speedpaint |-> <<"s", "p", "e", "e", "d", "p", "a", "i", "n", "t">>,
    nmm |-> <<"n", "m", "m">>,
    drybrushing |-> <<"d", "r", "y", "b", "r", "u", "s", "h", "i", "n", "g">>,
    t3dprinting |-> <<"3", "d", "p", "r", "i", "n", "t", "i", "n", "g">>,
    wargamingterrain |-> <<"w", "a", "r", "g", "a", "m", "i", "n", "g", "t", "e", "r", "r", "a", "i", "n">>,
    airbrush |-> <<"a", "i", "r", "b", "r", "u", "s", "h">>,
    orcsandgoblins |-> <<"o", "r", "c", "s", "a", "n", "d", "g", "o", "b", "l", "i", "n", "s">> ]

\* The transcript text is represented by the set of the phrases below that
\* its first 2000 characters, lower-cased, include.
ContentPhrases ==
  { "warmachine", "crucible guard", "fifth division", "trench crusade", "dolmenwood", "warhammer",
    "40k", "old world", "speed paint", "speedpaint", "contrast paint", "nmm",
    "non-metal", "nonmetal", "dry brush", "drybrush", "3d print", "resin",
    "terrain", "board", "airbrush", "goblin", "orc" }

\* categorizeVideo: the tags pushed by the tests, in the order of the tests,
\* without duplicates, the first five of them
categorizeVideo(title, content) ==
  LET titleLower == toLowerCase(title)
      tutorial == includes(titleLower, <<"h", "o", "w", " ", "t", "o">>) \/
                  includes(titleLower, <<"t", "u", "t", "o", "r", "i", "a", "l">>) \/
                  includes(titleLower, <<"r", "e", "c", "i", "p", "e">>) \/
                  includes(titleLower, <<"g", "u", "i", "d", "e">>)
      vlog == includes(titleLower, <<"v", "l", "o", "g">>) \/
              includes(titleLower, <<"r", "a", "m", "b", "l">>) \/
              includes(titleLower, <<"u", "p", "d", "a", "t", "e">>) \/
              includes(titleLower, <<"d", "a", "y", " ">>)
      push(cond, ts) == IF cond THEN ts ELSE <<>>
      tags ==
        <<Hashtag.miniaturepainting, Hashtag.hobbypainting>>
        \o push(tutorial, <<Hashtag.hobbytutorial>>)
        \o push(vlog, <<Hashtag.hobbyvlog>>)
        \o push("warmachine" \in content \/
               "crucible guard" \in content \/
               "fifth division" \in content \/
               includes(titleLower, <<"w", "a", "r", "m", "a", "c", "h", "i", "n", "e">>),
                <<Hashtag.warmachine>>)
        \o push("trench crusade" \in content \/
               includes(titleLower, <<"t", "r", "e", "n", "c", "h", " ", "c", "r", "u", "s", "a", "d", "e">>),
                <<Hashtag.trenchcrusade>>)
        \o push("dolmenwood" \in content \/
               includes(titleLower, <<"d", "o", "l", "m", "e", "n", "w", "o", "o", "d">>),
                <<Hashtag.dolmenwood, Hashtag.ttrpg>>)
        \o push("warhammer" \in content \/
               "40k" \in content \/
               "old world" \in content,
                <<Hashtag.warhammer>>)
        \o push("speed paint" \in content \/
               "speedpaint" \in content \/
               "contrast paint" \in content,
                <<Hashtag.speedpaint>>)
        \o push("nmm" \in content \/
               "non-metal" \in content \/
               "nonmetal" \in content,
                <<Hashtag.nmm>>)
        \o push("dry brush" \in content \/
               "drybrush" \in content,
                <<Hashtag.drybrushing>>)
        \o push("3d print" \in content \/
               "resin" \in content,
                <<Hashtag.t3dprinting>>)
        \o push("terrain" \in content \/
               "board" \in content,
                <<Hashtag.wargamingterrain>>)
        \o push("airbrush" \in content,
                <<Hashtag.airbrush>>)
        \o push("goblin" \in content \/
               "orc" \in content,
                <<Hashtag.orcsandgoblins>>)
  IN [category |-> IF vlog THEN "vlog" ELSE IF tutorial THEN "tutorial" ELSE "vlog",
      tags |-> slice(dedupe(tags), TagLimit)]

\* the text the fetch stage writes as transcript includes none of the phrases
phrasesOf(body) == {}

\* parseTranscript: the title line, the "**Video ID:**" line and the text
\* after "## Transcript"
parseTranscript(content) ==
  [title |-> content.title, videoId |-> content.videoId,
   transcript |-> phrasesOf(content.body)]

\* generateSummary: a sentence around the title
generateSummary(title, transcript, category) == title

\* generateDescription: hook, link block, hashtag line (one "#" per tag)
generateDescription(metadata, category, tags, hook) ==
  [hook |-> hook, hashtags |-> tags]

\* the description main builds from the parsed transcript
describe(metadata) ==
  LET c == categorizeVideo(metadata.title, metadata.transcript)
  IN generateDescription(metadata, c.category, c.tags,
                         generateSummary(metadata.title, metadata.transcript, c.category))

\* the description the MCP tool generate_description builds
toolDescription(hook, tags) ==
  LET limitedTags == slice(tags, HashtagLimit)
  IN [hook |-> hook,
      hashtags |-> IF Len(tags) > 0
                   THEN [k \in 1..Len(limitedTags) |->
                           toLowerCase(removeWhitespace(limitedTags[k]))]
                   ELSE <<Hashtag.miniaturepainting, Hashtag.hobbypainting>>]

descriptionFilename(file) == replaceFirst(file, MD, DESC)

alreadyProcessed_ByArtifact(l, file) == descriptionFilename(file) \in DOMAIN descriptions

alreadyProcessed(l, file) == file \in DOMAIN l

\* main up to the loop; readdirSync throws when ./transcripts is missing
StartDescribe ==
  /\ Fresh("describe", NoMode, loadLogDesc)
  /\ cands' = transcriptFiles
  /\ pc' = IF transcriptsDir THEN "loop" ELSE "fatal"
  /\ UNCHANGED <<disk, server, tokenFile, pager, probe, edit, remote>>

DescribeSkip ==
  /\ stage = "describe" /\ pc = "loop" /\ i <= Len(cands)
  /\ alreadyProcessed(log, cands[i])
  /\ skipped' = skipped + 1
  /\ i' = i + 1
  /\ UNCHANGED <<disk, server, auth, pager, probe, edit, remote, clock, stage, pc, mode, log, cands, results,
                 newDownloads, processed, successCount, errorCount, failed, ghost>>

\* one iteration of the try block: read, generate, write, log entry
DescribeItem_EntryFirst(outcome) ==
  /\ stage = "describe" /\ pc = "loop" /\ i <= Len(cands)
  /\ ~alreadyProcessed(log, cands[i])
  /\ LET file == cands[i]
         descFilename == descriptionFilename(file)
     IN /\ log' = IF outcome = "readFail" THEN log
                  ELSE Put(log, file, [descriptionFile |-> descFilename,
                                       processedAt |-> clock])
        /\ IF outcome = "ok"
           THEN /\ descriptions' = Put(descriptions, descFilename,
                                       describe(parseTranscript(transcripts[file])))
                /\ processed' = processed + 1
                /\ failed' = failed
                /\ written' = written \cup {file}
                /\ completed' = completed \cup {file}
           ELSE /\ failed' = failed + 1
                /\ UNCHANGED <<descriptions, processed, written, completed>>
  /\ i' = i + 1
  /\ attempted' = attempted \cup {cands[i]}
  /\ UNCHANGED <<damaged, transcriptsDir, transcripts, downloaded, processedDesc, pushed, summary, server, auth, pager, probe, edit,
                 remote, clock, stage, pc, mode, cands, results, skipped, newDownloads,
                 successCount, errorCount, paced, keysAtStart, loaded, flushes, requested>>

DescribeItem(outcome) ==
  /\ stage = "describe" /\ pc = "loop" /\ i <= Len(cands)
  /\ ~alreadyProcessed(log, cands[i])
  /\ LET file == cands[i]
         descFilename == descriptionFilename(file)
     IN IF ~hasMap("processedDesc")
        THEN /\ pc' = "typeError"
             /\ UNCHANGED <<descriptions, log, processed, failed, written, completed,
                            i, attempted>>
        ELSE /\ IF outcome = "ok"
                THEN /\ descriptions' = Put(descriptions, descFilename,
                                            describe(parseTranscript(transcripts[file])))
                     /\ log' = Put(log, file, [descriptionFile |-> descFilename,
                                               processedAt |-> clock])
                     /\ processed' = processed + 1
                     /\ failed' = failed
                     /\ written' = written \cup {file}
                     /\ completed' = completed \cup {file}
                ELSE /\ failed' = failed + 1
                     /\ UNCHANGED <<descriptions, log, processed, written, completed>>
             /\ i' = i + 1
             /\ attempted' = attempted \cup {cands[i]}
             /\ pc' = pc
  /\ UNCHANGED <<damaged, transcriptsDir, transcripts, downloaded, processedDesc, pushed, summary, server, auth, pager, probe, edit,
                 remote, clock, stage, mode, cands, results, skipped, newDownloads,
                 successCount, errorCount, paced, keysAtStart, loaded, flushes, requested>>

\* saveLog(log) after the loop, then the "Done!" line
DescribeSaveLog(ok) ==
  /\ stage = "describe" /\ pc = "loop" /\ i > Len(cands)
  /\ IF ok
     THEN IF hasMap("processedDesc")
          THEN /\ processedDesc' = log /\ flushes' = flushes + 1 /\ pc' = "done"
               /\ damaged' = saved("processedDesc")
          ELSE /\ processedDesc' = processedDesc /\ flushes' = flushes
               /\ pc' = "typeError" /\ damaged' = damaged
     ELSE /\ processedDesc' = processedDesc /\ flushes' = flushes /\ pc' = "aborted"
          /\ damaged' = damaged
  /\ UNCHANGED <<transcriptsDir, transcripts, descriptions, downloaded, pushed, summary, server, auth, pager, probe, edit,
                 remote, clock, stage, mode, log, cands, i, results, counters,
                 attempted, paced, keysAtStart, loaded, requested, written, completed>>

Describe ==
  \/ StartDescribe
  \/ DescribeSkip
  \/ \E outcome \in {"ok", "readFail", "writeFail"} : DescribeItem(outcome)
  \/ \E ok \in BOOLEAN : DescribeSaveLog(ok)

\* ========================================================== publish stage
loadPushLog == load("pushed", pushed)

getVideoIdFromTranscript(file) == transcripts[file].videoId

getTitleFromTranscript(file) == transcripts[file].title

buildUpdateList_LedgerFirst(pushLog, SINGLE_VIDEO) ==
  LET keep(transcript) ==
        LET videoId == getVideoIdFromTranscript(transcript)
        IN /\ videoId # None
           /\ videoId \notin DOMAIN pushLog
           /\ ~(SINGLE_VIDEO # None /\ videoId # SINGLE_VIDEO)
           /\ descriptionFilename(transcript) \in DOMAIN descriptions
      sel == SelectSeq(transcriptFiles, keep)
  IN [j \in 1..Len(sel) |->
        [videoId |-> getVideoIdFromTranscript(sel[j]),
         title |-> getTitleFromTranscript(sel[j]),
         transcript |-> sel[j],
         descriptionFile |-> descriptionFilename(sel[j]),
         description |-> descriptions[descriptionFilename(sel[j])]]]

buildUpdateList(pushLog, SINGLE_VIDEO) ==
  LET keep(transcript) ==
        LET videoId == getVideoIdFromTranscript(transcript)
        IN /\ videoId # None
           /\ ~(videoId \in DOMAIN pushLog /\ SINGLE_VIDEO = None)
           /\ ~(SINGLE_VIDEO # None /\ videoId # SINGLE_VIDEO)
           /\ descriptionFilename(transcript) \in DOMAIN descriptions
      sel == SelectSeq(transcriptFiles, keep)
  IN [j \in 1..Len(sel) |->
        [videoId |-> getVideoIdFromTranscript(sel[j]),
         title |-> getTitleFromTranscript(sel[j]),
         transcript |-> sel[j],
         descriptionFile |-> descriptionFilename(sel[j]),
         description |-> descriptions[descriptionFilename(sel[j])]]]

StartPublish_AuthFirst(dryRun, listOnly, singleVideo) ==
  /\ Fresh("publish",
           [dryRun |-> dryRun, listOnly |-> listOnly, singleVideo |-> singleVideo],
           loadPushLog)
  /\ LET updates == buildUpdateList(loadPushLog, singleVideo)
     IN /\ cands' = updates
        /\ pc' = IF ~transcriptsDir THEN "fatal"
                 ELSE IF Len(updates) = 0 THEN "nothing"
                 ELSE "auth"
  /\ UNCHANGED <<disk, server, tokenFile, pager, probe, edit, remote>>

\* main up to the LIST_ONLY return; readdirSync in buildUpdateList throws
\* when ./transcripts is missing, and pushLog.pushed[videoId] throws for the
\* first transcript with a video id when the loaded log has no map
StartPublish(dryRun, listOnly, singleVideo) ==
  /\ Fresh("publish",
           [dryRun |-> dryRun, listOnly |-> listOnly, singleVideo |-> singleVideo],
           loadPushLog)
  /\ LET updates == buildUpdateList(loadPushLog, singleVideo)
         throws == /\ ~hasMap("pushed")
                   /\ \E f \in DOMAIN transcripts :
                        endsWith(f, MD) /\ getVideoIdFromTranscript(f) # None
     IN /\ cands' = IF transcriptsDir /\ throws THEN <<>> ELSE updates
        /\ pc' = IF ~transcriptsDir THEN "fatal"
                 ELSE IF throws THEN "typeError"
                 ELSE IF Len(updates) = 0 THEN "nothing"
                 ELSE IF listOnly THEN "listed"
                 ELSE "auth"
  /\ UNCHANGED <<disk, server, tokenFile, pager, probe, edit, remote>>

\* getAuthClient: process.exit(1) without the token file or without a
\* client secret file; otherwise the token file is loaded
PublishAuth(secretFound) ==
  /\ stage = "publish" /\ pc = "auth"
  /\ IF tokenFile # NoTokens /\ secretFound
     THEN pc' = "loop" /\ tokens' = tokenFile
     ELSE pc' = "exited" /\ tokens' = tokens
  /\ UNCHANGED <<disk, server, tokenFile, emitted, currentSnippet, pager, probe, edit, remote, clock,
                 stage, mode, log, cands, i, results, counters, ghost>>

PublishDry_Records ==
  /\ stage = "publish" /\ pc = "loop" /\ i <= Len(cands)
  /\ mode.dryRun
  /\ successCount' = successCount + 1
  /\ i' = i + 1
  /\ log' = Put(log, cands[i].videoId,
                [title |-> cands[i].title, transcript |-> cands[i].transcript,
                 descriptionFile |-> cands[i].descriptionFile, pushedAt |-> clock])
  /\ pushed' = log'
  /\ attempted' = attempted \cup {cands[i].videoId}
  /\ UNCHANGED <<damaged, transcriptsDir, transcripts, descriptions, downloaded, processedDesc, summary,
                 server, auth, pager, probe, edit, remote, clock, stage, pc, mode, cands, results,
                 skipped, newDownloads, processed, errorCount, failed, keysAtStart, loaded, flushes, requested, written, completed, paced>>

PublishDry ==
  /\ stage = "publish" /\ pc = "loop" /\ i <= Len(cands)
  /\ mode.dryRun
  /\ successCount' = successCount + 1
  /\ i' = i + 1
  /\ attempted' = attempted \cup {cands[i].videoId}
  /\ UNCHANGED <<disk, server, auth, pager, probe, edit, remote, clock, stage, pc, mode, log, cands, results,
                 skipped, newDownloads, processed, errorCount, failed, keysAtStart, loaded, flushes, requested, written, completed, paced>>

PublishBegin ==
  /\ stage = "publish" /\ pc = "loop" /\ i <= Len(cands)
  /\ ~mode.dryRun
  /\ pc' = "read"
  /\ attempted' = attempted \cup {cands[i].videoId}
  /\ UNCHANGED <<disk, server, auth, pager, probe, edit, remote, clock, stage, mode, log, cands, i, results,
                 counters, keysAtStart, loaded, flushes, requested, written, completed, paced>>

\* the catch block of the item loop
PublishCatch ==
  /\ errorCount' = errorCount + 1
  /\ i' = i + 1
  /\ pc' = "loop"

\* the listener of the client's 'tokens' event: what it leaves in the
\* token file
refreshHook_Skipped(file, loadedTokens, newTokens) == file

refreshHook(file, loadedTokens, newTokens) == spread(loadedTokens, newTokens)

\* An external call of the publish stage.  The client may refresh its
\* access token during the call; it then emits 'tokens' before it answers,
\* and a listener that throws makes the call fail.
tokenFileAfterCall(newTokens, hookOk) ==
  IF newTokens # NoTokens /\ hookOk
  THEN refreshHook(tokenFile, tokens, newTokens)
  ELSE tokenFile

callFails(newTokens, hookOk) == newTokens # NoTokens /\ ~hookOk

\* getVideoDetails
getVideoDetails(answer, videoId) ==
  IF answer = "found" THEN remote[videoId] ELSE NoSnippet

\* the write issued without waiting for what the read found
PublishRead_Blind(answer, newTokens, hookOk) ==
  /\ stage = "publish" /\ pc = "read"
  /\ requested' = requested \cup {cands[i].videoId}
  /\ emitted' = newTokens
  /\ tokenFile' = tokenFileAfterCall(newTokens, hookOk)
  /\ pc' = "update"
  /\ currentSnippet' = IF answer = "found"
                       THEN getVideoDetails(answer, cands[i].videoId)
                       ELSE [title |-> <<>>, categoryId |-> None]
  /\ paced' = FALSE
  /\ UNCHANGED <<disk, server, tokens, pager, probe, edit, remote, clock, stage, mode, log, cands,
                 i, results, counters, attempted, keysAtStart, loaded, flushes, written, completed>>

\* updateVideoDescription, first half: getVideoDetails
PublishRead(answer, newTokens, hookOk) ==
  /\ stage = "publish" /\ pc = "read"
  /\ requested' = requested \cup {cands[i].videoId}
  /\ emitted' = newTokens
  /\ tokenFile' = tokenFileAfterCall(newTokens, hookOk)
  /\ IF answer = "found" /\ ~callFails(newTokens, hookOk)
     THEN /\ pc' = "update"
          /\ currentSnippet' = getVideoDetails(answer, cands[i].videoId)
          /\ UNCHANGED <<errorCount, i>>
     ELSE /\ PublishCatch
          /\ currentSnippet' = currentSnippet
  /\ paced' = FALSE
  /\ UNCHANGED <<disk, server, tokens, pager, probe, edit, remote, clock, stage, mode, log, cands,
                 results, skipped, newDownloads, processed, successCount, failed,
                 attempted, keysAtStart, loaded, flushes, written, completed>>

\* the requestBody.snippet of youtube.videos.update
updateSnippet(snippet, newDescription) ==
  [title |-> snippet.title,
   description |-> newDescription,
   categoryId |-> snippet.categoryId,
   tags |-> IF "tags" \in DOMAIN snippet THEN snippet.tags ELSE <<>>]

PublishUpdate_IgnoreFailure(ok, newTokens, hookOk) ==
  /\ stage = "publish" /\ pc = "update"
  /\ emitted' = newTokens
  /\ tokenFile' = tokenFileAfterCall(newTokens, hookOk)
  /\ remote' = IF ok
               THEN [remote EXCEPT ![cands[i].videoId] =
                       updateSnippet(currentSnippet, cands[i].description)]
               ELSE remote
  /\ written' = IF ok THEN written \cup {cands[i].videoId} ELSE written
  /\ pc' = "record"
  /\ currentSnippet' = NoSnippet
  /\ paced' = FALSE
  /\ UNCHANGED <<disk, server, tokens, pager, probe, edit, clock, stage, mode, log,
                 cands, i, results, counters, attempted, keysAtStart, loaded, flushes, requested, completed>>

\* updateVideoDescription, second half: youtube.videos.update, which
\* replaces the video's snippet by the one sent; currentSnippet is a local
\* of updateVideoDescription and is gone when it returns or throws
PublishUpdate(ok, newTokens, hookOk) ==
  /\ stage = "publish" /\ pc = "update"
  /\ emitted' = newTokens
  /\ tokenFile' = tokenFileAfterCall(newTokens, hookOk)
  /\ IF ok /\ ~callFails(newTokens, hookOk)
     THEN /\ remote' = [remote EXCEPT ![cands[i].videoId] =
                          updateSnippet(currentSnippet, cands[i].description)]
          /\ written' = written \cup {cands[i].videoId}
          /\ pc' = "record"
          /\ UNCHANGED <<errorCount, i>>
     ELSE /\ PublishCatch
          /\ UNCHANGED <<remote, written>>
  /\ currentSnippet' = NoSnippet
  /\ paced' = FALSE
  /\ UNCHANGED <<disk, server, tokens, pager, probe, edit, clock, stage, mode, log,
                 cands, results, skipped, newDownloads, processed, successCount, failed,
                 attempted, keysAtStart, loaded, flushes, requested, completed>>

\* pushLog.pushed[videoId] = {...}; savePushLog(pushLog)
PublishRecord(ok) ==
  /\ stage = "publish" /\ pc = "record"
  /\ log' = Put(log, cands[i].videoId,
                [title |-> cands[i].title, transcript |-> cands[i].transcript,
                 descriptionFile |-> cands[i].descriptionFile, pushedAt |-> clock])
  /\ IF ok
     THEN /\ pushed' = log'
          /\ damaged' = saved("pushed")
          /\ flushes' = flushes + 1
          /\ successCount' = successCount + 1
          /\ completed' = completed \cup {cands[i].videoId}
          /\ pc' = "delay"
          /\ UNCHANGED <<errorCount, i>>
     ELSE /\ PublishCatch
          /\ UNCHANGED <<pushed, damaged, flushes, successCount, completed>>
  /\ UNCHANGED <<transcriptsDir, transcripts, descriptions, downloaded, processedDesc, summary,
                 server, auth, pager, probe, edit, remote, clock, stage, mode, cands, results,
                 skipped, newDownloads, processed, failed, attempted, paced, keysAtStart, loaded, requested, written>>

PublishDelay ==
  /\ stage = "publish" /\ pc = "delay"
  /\ i' = i + 1
  /\ pc' = "loop"
  /\ paced' = TRUE
  /\ UNCHANGED <<disk, server, auth, pager, probe, edit, remote, clock, stage, mode, log, cands, results,
                 counters, keysAtStart, loaded, flushes, requested, written, completed, attempted>>

\* the "=== Summary ===" lines
PublishEnd ==
  /\ stage = "publish" /\ pc = "loop" /\ i > Len(cands)
  /\ pc' = "done"
  /\ UNCHANGED <<disk, server, auth, pager, probe, edit, remote, clock, stage, mode, log, cands, i, results,
                 counters, ghost>>

Publish ==
  \/ \E dryRun \in BOOLEAN, listOnly \in BOOLEAN, singleVideo \in VideoIds \cup {None} :
       StartPublish(dryRun, listOnly, singleVideo)
  \/ \E secretFound \in BOOLEAN : PublishAuth(secretFound)
  \/ PublishDry
  \/ PublishBegin
  \/ \E answer \in {"found", "notFound", "error"} : PublishRead(answer, NoTokens, TRUE)
  \/ \E ok \in BOOLEAN : PublishUpdate(ok, NoTokens, TRUE)
  \/ \E ok \in BOOLEAN : PublishRecord(ok)
  \/ PublishDelay
  \/ PublishEnd

\* the external calls during which the client refreshes its access token
TokenRefresh ==
  \/ \E answer \in {"found", "notFound", "error"}, newTokens \in Refreshes,
        hookOk \in BOOLEAN : PublishRead(answer, newTokens, hookOk)
  \/ \E ok \in BOOLEAN, newTokens \in Refreshes, hookOk \in BOOLEAN :
        PublishUpdate(ok, newTokens, hookOk)

\* ============================================== MCP server: save_blog_post
BlogNames == { <<"p">> \o MD, <<"p", ".", "m", "d", "x">> }

loadProcessedLog == load("processedLog", processedLog)

\* the result of a tool that returned, and of the catch of the handler
result(tool, text) == [isError |-> FALSE, tool |-> tool, text |-> text]

\* a handler without the catch's flag
errorReply_Unflagged(tool) == result(tool, <<"E", "r", "r", "o", "r">>)

errorReply(tool) == [isError |-> TRUE, tool |-> tool, text |-> <<"E", "r", "r", "o", "r">>]

\* a tool call arrives between the runs of the scripts
toolCall(tool, args) ==
  /\ pc \in Over
  /\ calls < MaxSession
  /\ calls' = calls + 1
  /\ probe' = [tool |-> tool, args |-> args]
  /\ inflight' = inflight

\* the save_blog_post case of the tool handler, with its catch; the server
\* is called between the runs of the scripts
save_blog_post(filename, content, sourceTranscript, writeOk, saveOk) ==
  /\ toolCall("save_blog_post", [filename |-> filename, content |-> content,
                                 sourceTranscript |-> sourceTranscript])
  /\ IF writeOk
     THEN /\ blogPosts' = Put(blogPosts, filename,
                              [header |-> "## Transcript", body |-> content])
          /\ IF sourceTranscript = <<>>
             THEN /\ reply' = result("save_blog_post", filename)
                  /\ UNCHANGED <<processedLog, damaged>>
             ELSE IF saveOk /\ hasMap("processedLog")
             THEN /\ processedLog' = Put(loadProcessedLog, sourceTranscript,
                                         [blogPost |-> filename, processedAt |-> calls])
                  /\ damaged' = saved("processedLog")
                  /\ reply' = result("save_blog_post", filename)
             ELSE /\ reply' = errorReply("save_blog_post")
                  /\ UNCHANGED <<processedLog, damaged>>
     ELSE /\ reply' = errorReply("save_blog_post")
          /\ UNCHANGED <<blogPosts, processedLog, damaged>>
  /\ UNCHANGED <<transcriptsDir, transcripts, descriptions, downloaded, processedDesc,
                 pushed, summary, auth, pager, edit, remote, clock, stage, pc, mode, log,
                 cands, i, results, counters, ghost>>

\* list_blog_posts: the names of ./blog-posts that end with ".md"
blogPostsListed == SelectSeq(readdir(DOMAIN blogPosts), LAMBDA f : endsWith(f, MD))

list_blog_posts ==
  /\ toolCall("list_blog_posts", <<>>)
  /\ reply' = result("list_blog_posts", blogPostsListed)
  /\ UNCHANGED <<disk, blogPosts, processedLog, auth, pager, edit, remote, clock, stage,
                 pc, mode, log, cands, i, results, counters, ghost>>

\* read_blog_post: readFile throws when there is no such file
blogPostRead(filename) ==
  IF filename \in DOMAIN blogPosts
  THEN result("read_blog_post", blogPosts[filename])
  ELSE errorReply("read_blog_post")

read_blog_post(filename) ==
  /\ toolCall("read_blog_post", [filename |-> filename])
  /\ reply' = blogPostRead(filename)
  /\ UNCHANGED <<disk, blogPosts, processedLog, auth, pager, edit, remote, clock, stage,
                 pc, mode, log, cands, i, results, counters, ghost>>

\* the list_transcripts case: the .md files of ./transcripts whose name
\* does not start with "_", without those the processed log holds when
\* unprocessed_only is set; log.processed[t] throws when the log has no map
transcriptsListed_All(unprocessedOnly) ==
  SelectSeq(readdir(DOMAIN transcripts), LAMBDA f : endsWith(f, MD) /\ Head(f) # "_")

transcriptsListed(unprocessedOnly) ==
  LET files == SelectSeq(readdir(DOMAIN transcripts),
                         LAMBDA f : endsWith(f, MD) /\ Head(f) # "_")
  IN IF unprocessedOnly
     THEN SelectSeq(files, LAMBDA t : t \notin DOMAIN loadProcessedLog)
     ELSE files

list_transcripts(unprocessedOnly) ==
  /\ toolCall("list_transcripts", [unprocessed_only |-> unprocessedOnly])
  /\ transcriptsDir' = TRUE
  /\ reply' = IF unprocessedOnly /\ ~hasMap("processedLog")
                 /\ transcriptsListed(FALSE) # <<>>
              THEN errorReply("list_transcripts")
              ELSE result("list_transcripts", transcriptsListed(unprocessedOnly))
  /\ UNCHANGED <<damaged, transcripts, descriptions, downloaded, processedDesc, pushed,
                 summary, blogPosts, processedLog, auth, pager, edit, remote, clock, stage,
                 pc, mode, log, cands, i, results, counters, ghost>>

\* the default case: a name none of the cases has; the throw is caught by
\* the handler's catch
unknownTool(name) ==
  /\ toolCall(name, <<>>)
  /\ reply' = errorReply(name)
  /\ UNCHANGED <<disk, blogPosts, processedLog, auth, pager, edit, remote, clock, stage,
                 pc, mode, log, cands, i, results, counters, ghost>>

\* the tool as the scripts' operator uses it: posts saved as p.md
Mcp ==
  /\ calls < MaxCalls
  /\ \E content \in {"c1"},
        sourceTranscript \in {<<>>, transcriptFilename(Channel[1])},
        writeOk \in BOOLEAN, saveOk \in BOOLEAN :
          save_blog_post(<<"p">> \o MD, content, sourceTranscript, writeOk, saveOk)

\* ================================================= blog conversion script
\* \w
WordChars == DOMAIN LowerCase \cup { LowerCase[c] : c \in DOMAIN LowerCase }
               \cup {"0", "1", "2", "3", "4", "5", "6", "7", "8", "9", "_"}

\* .replace(/X+/g, rep) for a class X of characters
RECURSIVE replaceRuns(_, _, _)
replaceRuns(s, class, rep) ==
  IF s = <<>> THEN <<>>
  ELSE IF Head(s) \in class
       THEN IF Len(s) > 1 /\ s[2] \in class
            THEN replaceRuns(Tail(s), class, rep)
            ELSE <<rep>> \o replaceRuns(Tail(s), class, rep)
       ELSE <<Head(s)>> \o replaceRuns(Tail(s), class, rep)

RECURSIVE trim(_)
trim(s) ==
  IF s = <<>> THEN <<>>
  ELSE IF Head(s) \in Whitespace THEN trim(Tail(s))
  ELSE IF s[Len(s)] \in Whitespace THEN trim(SubSeq(s, 1, Len(s) - 1))
  ELSE s

slugify(title) ==
  LET lower == toLowerCase(title)
      kept == SelectSeq(lower, LAMBDA c : c \in WordChars \cup Whitespace \cup {"-"})
      dashed == replaceRuns(kept, Whitespace, "-")
      single == replaceRuns(dashed, {"-"}, "-")
  IN slice(trim(single), SlugLen)

\* parseTranscript of the conversion script
blogParseTranscript(content) ==
  [title |-> IF content.title = <<>> THEN <<"U", "n", "t", "i", "t", "l", "e", "d">>
             ELSE content.title,
   videoId |-> content.videoId,
   transcript |-> content.body]

generateBlogPost(data) ==
  [header |-> "## Transcript", body |-> data.transcript, title |-> data.title,
   youtubeId |-> data.videoId]

\* the candidates are the videos of the summary that have a transcript
videosWithTranscripts(s) ==
  SelectSeq(s.videos, LAMBDA v : v.hasTranscript /\ v.filepath # <<>>)

\* processAllTranscripts up to the loop: readFile throws without the
\* summary file, and the error is printed by .catch(console.error)
StartBlog ==
  /\ Fresh("blog", NoMode, EmptyMap)
  /\ IF summary = <<>>
     THEN cands' = <<>> /\ pc' = "fatal"
     ELSE cands' = videosWithTranscripts(summary[1]) /\ pc' = "loop"
  /\ UNCHANGED <<disk, server, tokenFile, pager, probe, edit, remote>>

\* one iteration: a transcript file that cannot be read or a post that
\* cannot be written is counted and the loop goes on
BlogItem(writeOk) ==
  /\ stage = "blog" /\ pc = "loop" /\ i <= Len(cands)
  /\ LET filepath == cands[i].filepath
     IN IF filepath \in DOMAIN transcripts /\ writeOk
        THEN LET data == blogParseTranscript(transcripts[filepath])
             IN /\ blogPosts' = Put(blogPosts, slugify(data.title) \o <<".", "m", "d", "x">>,
                                    generateBlogPost(data))
                /\ processed' = processed + 1
                /\ written' = written \cup {filepath}
                /\ failed' = failed
        ELSE /\ failed' = failed + 1
             /\ UNCHANGED <<blogPosts, processed, written>>
  /\ attempted' = attempted \cup {cands[i].filepath}
  /\ i' = i + 1
  /\ UNCHANGED <<disk, processedLog, calls, reply, inflight, auth, pager, probe, edit, remote, clock,
                 stage, pc, mode, log, cands, results, skipped, newDownloads,
                 successCount, errorCount, keysAtStart, loaded, flushes, requested,
                 completed, paced>>

\* the "Processing complete!" lines
BlogEnd ==
  /\ stage = "blog" /\ pc = "loop" /\ i > Len(cands)
  /\ pc' = "done"
  /\ UNCHANGED <<disk, server, auth, pager, probe, edit, remote, clock, stage, mode, log,
                 cands, i, results, counters, ghost>>

Blog ==
  \/ StartBlog
  \/ \E writeOk \in BOOLEAN : BlogItem(writeOk)
  \/ BlogEnd

\* the operator interrupts the process: its memory is gone, the disk and
\* the remote end stay as they are
Kill ==
  /\ pc \notin Over
  /\ pc' = "killed"
  /\ log' = EmptyMap
  /\ cands' = <<>>
  /\ i' = 1
  /\ results' = <<>>
  /\ skipped' = 0 /\ newDownloads' = 0 /\ processed' = 0
  /\ successCount' = 0 /\ errorCount' = 0 /\ failed' = 0
  /\ stage' = None
  /\ mode' = NoMode
  /\ tokens' = NoTokens
  /\ emitted' = NoTokens
  /\ currentSnippet' = NoSnippet
  /\ loaded' = EmptyMap
  /\ flushes' = 0
  /\ requested' = {}
  /\ written' = {}
  /\ completed' = {}
  /\ attempted' = {}
  /\ keysAtStart' = {}
  /\ paced' = TRUE
  /\ UNCHANGED <<disk, server, tokenFile, pager, probe, edit, remote, clock>>

\* the exit status of a script that has ended: process.exit(1) gives 1; an
\* error thrown out of main is printed by main().catch(console.error) and
\* the process ends with status 0; an interrupted process ends with 130
exitCode ==
  CASE pc = "exited" -> 1
    [] pc = "killed" -> 130
    [] OTHER -> 0

\* the three scripts, run one after another by the operator
Next ==
  \/ Fetch
  \/ Describe
  \/ Publish
  \/ Kill

Spec == Init /\ [][Next]_vars

\* The scripts that write artifact files, and the MCP server's
\* save_blog_post.  The tool touches only ./blog-posts and processed.json,
\* which none of these scripts reads or writes, so a tool call commutes with
\* every step of a script: the scripts' runs are taken first, the tool calls after them.
ScriptsFirst ==
  /\ calls = 0
  /\ (Fetch \/ Describe \/ Kill)

NextAll ==
  \/ ScriptsFirst
  \/ Mcp

SpecAll == Init /\ [][NextAll]_vars

\* ------------------------------------------- the publish stage on its own
\* ------------------------------------------------------------- SpecBlog
\* the fetch script and the blog conversion script, run one after another
\* from a fresh checkout
NextBlog ==
  \/ Fetch
  \/ Blog
  \/ Kill

SpecBlog == Init /\ [][NextBlog]_vars

\* The disk a complete fetch run and a complete describe run leave behind:
\* the files and the ledger after the first n videos of the catalogue
RECURSIVE fetchedFiles(_)
fetchedFiles(n) ==
  IF n = 0 THEN EmptyMap
  ELSE Put(fetchedFiles(n - 1), transcriptFilename(catalogue[n]),
           [title |-> catalogue[n].title, videoId |-> catalogue[n].videoId,
            body |-> "text"])

RECURSIVE fetchedLog(_)
fetchedLog(n) ==
  IF n = 0 THEN EmptyMap
  ELSE Put(fetchedLog(n - 1), catalogue[n].videoId,
           [title |-> catalogue[n].title,
            filename |-> transcriptFilename(catalogue[n]), downloadedAt |-> 1])

fetchedSummary ==
  <<[totalVideos |-> NumVideos, skipped |-> 0, newDownloads |-> NumVideos,
     transcriptsFound |-> NumVideos, transcriptsNotFound |-> 0,
     videos |-> [n \in 1..NumVideos |->
                   [videoId |-> catalogue[n].videoId, title |-> catalogue[n].title,
                    hasTranscript |-> TRUE,
                    filepath |-> transcriptFilename(catalogue[n])]]]>>

\* the describe run succeeded for the transcript files in "files"
describedFiles(files) ==
  [d \in { descriptionFilename(f) : f \in files } |->
     LET f == CHOOSE g \in files : descriptionFilename(g) = d
     IN describe(parseTranscript(fetchedFiles(NumVideos)[f]))]

describedLog(files) ==
  [f \in files |-> [descriptionFile |-> descriptionFilename(f), processedAt |-> 2]]

PreparedDisk ==
  /\ transcriptsDir = TRUE
  /\ transcripts = fetchedFiles(NumVideos)
  /\ downloaded = fetchedLog(NumVideos)
  /\ summary = fetchedSummary
  /\ \E files \in SUBSET DOMAIN fetchedFiles(NumVideos) :
       /\ descriptions = describedFiles(files)
       /\ processedDesc = describedLog(files)
  /\ pushed = EmptyMap
  /\ remote = [v \in VideoIds |->
                 snippet0(CHOOSE n \in 1..NumVideos : Channel[n].videoId = v)]
  /\ clock = 2

\* after those two runs, with or without a token file
InitPublish ==
  /\ PreparedDisk
  /\ tokenFile \in {NoTokens, Token0}
  /\ blogPosts = EmptyMap
  /\ processedLog = EmptyMap
  /\ calls = 0
  /\ pager = NoCall
  /\ InitMemory
  /\ Untampered
  /\ Unobserved

NextPublish ==
  \/ Publish
  \/ TokenRefresh
  \/ Kill

SpecPublish == InitPublish /\ [][NextPublish]_vars

\* ----------------------------------------------- getPlaylistVideos alone
InitPages ==
  /\ transcriptsDir = FALSE
  /\ transcripts = EmptyMap
  /\ descriptions = EmptyMap
  /\ downloaded = EmptyMap
  /\ processedDesc = EmptyMap
  /\ pushed = EmptyMap
  /\ summary = <<>>
  /\ blogPosts = EmptyMap
  /\ processedLog = EmptyMap
  /\ remote = [v \in VideoIds |->
                 snippet0(CHOOSE n \in 1..NumVideos : Channel[n].videoId = v)]
  /\ tokenFile = NoTokens
  /\ clock = 0
  /\ calls = 0
  /\ InitMemory
  /\ Untampered
  /\ Unobserved
  /\ pager \in [total : 0..MaxItems,
                 maxResults : {<<>>} \cup { <<m>> : m \in 0..MaxItems },
                 returned : {FALSE}, videos : {<<>>}, requests : {0}]

NextPages == CallGetPlaylistVideos

SpecPages == InitPages /\ [][NextPages]_vars

\* ------------------------------------------------ the functions alone
\* titles a video can carry: the channel's, a tutorial's and a vlog's
ProbeTitles ==
  { Channel[n].title : n \in 1..4 } \cup
  { <<"H", "o", "w", " ", "t", "o", " ", "N", "M", "M">>,
    <<"D", "a", "y", " ", "1", " ", "v", "l", "o", "g">> }

\* transcripts that include none, one or two of the phrases
SampleContents == { {a, b} : a \in ContentPhrases, b \in ContentPhrases } \cup { {} }

\* tags a client of generate_description passes
ToolTags == { <<"N", "M", "M">>, <<"D", "r", "y", " ", "B", "r", "u", "s", "h">>, <<"a">> }

SeqsUpTo(S, n) == UNION { [1..k -> S] : k \in 0..n }

\* the MCP server's descriptions directory: the environment's, or the default
\* when the variable is unset or empty
toolDescriptionsDir(env) ==
  IF env # <<>> /\ env[1] # "" THEN env[1] ELSE "./descriptions"

\* The transcript file as text: the title line, the id line, the link line
\* (its address shortened), the heading and the transcript; the date line,
\* which follows the id line, is left out.
renderTranscript(title, videoId) ==
  <<"#", " ">>
    \o title \o
  <<"\n", "\n", "-", " ", "*", "*", "V", "i", "d", "e", "o", " ", "I", "D",
    ":", "*", "*", " ">>
    \o videoId \o
  <<"\n", "-", " ", "*", "*", "U", "R", "L", ":", "*", "*", " ", "[", "W",
    "a", "t", "c", "h", "]", "(", "v", "=">>
    \o videoId \o
  <<")", "\n", "\n", "#", "#", " ", "T", "r", "a", "n", "s", "c", "r", "i",
    "p", "t", "\n", "\n", "t", "e", "x", "t">>

\* content.match(/\*\*Video ID:\*\*\s*(\S+)/): the run of characters other than
\* whitespace after the first marker that has one after its whitespace, or
\* no match
matchVideoId(content) ==
  LET marker == <<"*", "*", "V", "i", "d", "e", "o", " ", "I", "D", ":", "*", "*">>
      n == Len(content)
      word(k) ==
        LET from == k + Len(marker)
            inked == { p \in from..n : content[p] \notin Whitespace }
            start == CHOOSE p \in inked : \A q \in inked : p <= q
            blank == { p \in start..n : content[p] \in Whitespace }
            end == IF blank = {} THEN n
                   ELSE (CHOOSE p \in blank : \A q \in blank : p <= q) - 1
        IN IF inked = {} THEN <<>> ELSE SubSeq(content, start, end)
      found == { k \in 1..(n - Len(marker) + 1) :
                   /\ SubSeq(content, k, k + Len(marker) - 1) = marker
                   /\ word(k) # <<>> }
  IN IF found = {} THEN <<>>
     ELSE <<word(CHOOSE k \in found : \A j \in found : k <= j)>>

\* titles that quote the marker of the id line
MarkedTitles ==
  { <<"*", "*", "V", "i", "d", "e", "o", " ", "I", "D", ":", "*", "*", " ", "x", "7">>,
    <<"T", "i", "p", "s", " ", "*", "*", "V", "i", "d", "e", "o", " ", "I",
      "D", ":", "*", "*">> }

\* video ids as text
IdTexts == { <<"v", "1">>, <<"d", "Q", "w", "4">> }

\* The three places a description lives at, each path.join(dir, name) kept as
\* the pair of the directory and the file name.
\* the describe stage writes its description here
describePath(file) == <<"./descriptions", descriptionFilename(file)>>

\* the publish stage looks its description up here
publishPath(transcript) == <<"./descriptions", replaceFirst(transcript, MD, DESC)>>

\* the same directory, another extension
savedPath_Txt(sourceTranscript, env) ==
  <<toolDescriptionsDir(env), replaceFirst(sourceTranscript, MD, <<".", "t", "x", "t">>)>>

\* generate_description with save = true writes here
savedPath(sourceTranscript, env) ==
  <<toolDescriptionsDir(env), replaceFirst(sourceTranscript, MD, DESC)>>

\* transcript file names: the fetch stage's, and one with ".md" inside
ProbeFiles ==
  { sanitizeFilename(t) \o MD : t \in ProbeTitles } \cup
  { <<"a", ".", "m", "d", "-", "b">> \o MD }

\* DESCRIPTIONS_DIR in the MCP server's environment: unset, empty or set
ToolEnvs == { <<>>, <<"">>, <<"./descriptions">>, <<"./site/descriptions">> }

\* The calls under observation: describe on a parsed transcript, the MCP
\* tool's description for a list of tags, and transcriptFilename for two
\* catalog entries: two videos, or one video at its first download and at a
\* later one, when the owner may have changed its title; and the description
\* paths of one transcript file under one environment of the MCP server;
\* and the id the describe and the publish stage read back from the
\* transcript file the fetch stage writes for one video.
Probes ==
  [fn : {"describe"}, title : ProbeTitles, content : SampleContents, out : {<<>>}]
  \cup [fn : {"toolDescription"}, tags : SeqsUpTo(ToolTags, MaxToolTags), out : {<<>>}]
  \cup [fn : {"transcriptFilename"}, videoId : VideoIds, first : ProbeTitles,
         other : VideoIds, second : ProbeTitles, out : {<<>>}]
  \cup [fn : {"descriptionPaths"}, file : ProbeFiles, env : ToolEnvs, out : {<<>>}]
  \cup [fn : {"handOff"}, videoId : IdTexts, title : ProbeTitles \cup MarkedTitles,
         out : {<<>>}]

InitFunctions ==
  /\ transcriptsDir = FALSE
  /\ transcripts = EmptyMap
  /\ descriptions = EmptyMap
  /\ downloaded = EmptyMap
  /\ processedDesc = EmptyMap
  /\ pushed = EmptyMap
  /\ summary = <<>>
  /\ blogPosts = EmptyMap
  /\ processedLog = EmptyMap
  /\ remote = [v \in VideoIds |->
                 snippet0(CHOOSE n \in 1..NumVideos : Channel[n].videoId = v)]
  /\ tokenFile = NoTokens
  /\ pager = NoCall
  /\ clock = 0
  /\ calls = 0
  /\ InitMemory
  /\ Untampered
  /\ reply = NoReply
  /\ inflight = NoRequests
  /\ probe \in Probes

Returns(fn, value) ==
  /\ probe # NoProbe
  /\ probe.fn = fn
  /\ probe.out = <<>>
  /\ probe' = [probe EXCEPT !.out = <<value>>]
  /\ UNCHANGED <<disk, server, remote, auth, pager, edit, clock, stage, pc, mode, log,
                 cands, i, results, counters, ghost>>

CallDescribe ==
  /\ probe # NoProbe /\ probe.fn = "describe"
  /\ Returns("describe",
             describe([title |-> probe.title, videoId |-> None,
                       transcript |-> probe.content]))

CallToolDescription ==
  /\ probe # NoProbe /\ probe.fn = "toolDescription"
  /\ Returns("toolDescription", toolDescription(<<"H", "o", "o", "k">>, probe.tags))

CallTranscriptFilename ==
  /\ probe # NoProbe /\ probe.fn = "transcriptFilename"
  /\ Returns("transcriptFilename",
             [first |-> transcriptFilename([videoId |-> probe.videoId,
                                            title |-> probe.first]),
              second |-> transcriptFilename([videoId |-> probe.other,
                                             title |-> probe.second])])

CallDescriptionPaths ==
  /\ probe # NoProbe /\ probe.fn = "descriptionPaths"
  /\ Returns("descriptionPaths",
             [describe |-> describePath(probe.file),
              tool |-> savedPath(probe.file, probe.env),
              publish |-> publishPath(probe.file)])

CallHandOff ==
  /\ probe # NoProbe /\ probe.fn = "handOff"
  /\ LET content == renderTranscript(probe.title, probe.videoId)
     IN Returns("handOff", [describe |-> matchVideoId(content),
                            publish |-> matchVideoId(content)])

NextFunctions ==
  \/ CallDescribe
  \/ CallToolDescription
  \/ CallTranscriptFilename
  \/ CallDescriptionPaths
  \/ CallHandOff

SpecFunctions == InitFunctions /\ [][NextFunctions]_vars

\* ------------------------------------------------- the MCP server alone
\* the server's directory after earlier sessions: posts saved under any of
\* the names, by calls that named no source transcript
InitMcp ==
  /\ PreparedDisk
  /\ tokenFile = Token0
  /\ \E names \in SUBSET BlogNames :
       blogPosts = [f \in names |-> [header |-> "## Transcript", body |-> "c0"]]
  /\ processedLog = EmptyMap
  /\ calls = 0
  /\ pager = NoCall
  /\ InitMemory
  /\ edit = NoEdit
  /\ damaged \in { [NoDamage EXCEPT !["processedLog"] = d] : d \in {"no", "syntax", "shape"} }
  /\ Unobserved

NextMcp ==
  \/ \E filename \in BlogNames, content \in {"c1", "c2"},
        sourceTranscript \in {<<>>} \cup DOMAIN transcripts,
        writeOk \in BOOLEAN, saveOk \in BOOLEAN :
          save_blog_post(filename, content, sourceTranscript, writeOk, saveOk)
  \/ list_blog_posts
  \/ \E filename \in BlogNames : read_blog_post(filename)
  \/ \E unprocessedOnly \in BOOLEAN : list_transcripts(unprocessedOnly)
  \/ \E name \in {"delete_blog_post", "save_post"} : unknownTool(name)

SpecMcp == InitMcp /\ [][NextMcp]_vars

\* ------------------------------------- save_blog_post, await by await
\* The handler is an async function: the server starts the handler of a
\* request when the request arrives and does not wait for the handler of the
\* request before it, so the handlers of two requests take turns at their
\* awaits: the write of the post, the read of the processed log and the
\* write of the processed log.
Unshared ==
  UNCHANGED <<transcriptsDir, transcripts, descriptions, downloaded, processedDesc,
              pushed, summary, reply, auth, pager, probe, edit, remote, clock, stage, pc,
              mode, log, cands, i, results, counters, ghost>>

\* a request arrives
SaveArrives(r, filename, content, sourceTranscript) ==
  /\ pc \in Over
  /\ inflight[r].at = "idle"
  /\ calls < MaxSession
  /\ calls' = calls + 1
  /\ inflight' = [inflight EXCEPT ![r] =
                    [at |-> "write",
                     args |-> [filename |-> filename, content |-> content,
                               sourceTranscript |-> sourceTranscript],
                     log |-> <<>>]]
  /\ UNCHANGED <<blogPosts, processedLog, damaged>>
  /\ Unshared

\* await fs.writeFile(filepath, finalContent)
SaveWritesPost(r, ok) ==
  /\ inflight[r].at = "write"
  /\ blogPosts' = IF ok
                  THEN Put(blogPosts, inflight[r].args.filename,
                           [header |-> "## Transcript", body |-> inflight[r].args.content])
                  ELSE blogPosts
  /\ inflight' = [inflight EXCEPT ![r].at =
                    IF ~ok THEN "failed"
                    ELSE IF inflight[r].args.sourceTranscript = <<>> THEN "returned"
                    ELSE "load"]
  /\ UNCHANGED <<processedLog, damaged, calls>>
  /\ Unshared

\* const log = await loadProcessedLog(); log.processed[...] = {...}
SaveLoadsLog(r) ==
  /\ inflight[r].at = "load"
  /\ LET args == inflight[r].args
     IN inflight' = [inflight EXCEPT ![r] =
                       IF hasMap("processedLog")
                       THEN [at |-> "save", args |-> args,
                             log |-> Put(loadProcessedLog, args.sourceTranscript,
                                         [blogPost |-> args.filename,
                                          processedAt |-> calls])]
                       ELSE [at |-> "failed", args |-> args, log |-> <<>>]]
  /\ UNCHANGED <<blogPosts, processedLog, damaged, calls>>
  /\ Unshared

\* await saveProcessedLog(log), and the return of the result
SaveWritesLog(r, ok) ==
  /\ inflight[r].at = "save"
  /\ IF ok
     THEN /\ processedLog' = inflight[r].log
          /\ damaged' = saved("processedLog")
     ELSE UNCHANGED <<processedLog, damaged>>
  /\ inflight' = [inflight EXCEPT ![r].at = IF ok THEN "returned" ELSE "failed"]
  /\ UNCHANGED <<blogPosts, calls>>
  /\ Unshared

InitRace ==
  /\ PreparedDisk
  /\ tokenFile = Token0
  /\ blogPosts = EmptyMap
  /\ processedLog = EmptyMap
  /\ calls = 0
  /\ pager = NoCall
  /\ InitMemory
  /\ Untampered
  /\ Unobserved

NextRace ==
  \E r \in {1, 2} :
    \/ \E filename \in BlogNames, sourceTranscript \in {<<>>} \cup DOMAIN transcripts :
         SaveArrives(r, filename, "c1", sourceTranscript)
    \/ \E ok \in BOOLEAN : SaveWritesPost(r, ok)
    \/ SaveLoadsLog(r)
    \/ \E ok \in BOOLEAN : SaveWritesLog(r, ok)

SpecRace == InitRace /\ [][NextRace]_vars

\* ------------------------------------------- the runs after a hand edit
\* The disk and the remote end after a complete fetch run, a complete
\* describe run and a complete publish run.
allDescribed == describedFiles(DOMAIN fetchedFiles(NumVideos))

publishedIds == { fetchedFiles(NumVideos)[f].videoId : f \in DOMAIN fetchedFiles(NumVideos) }

fileOf(v) == CHOOSE f \in DOMAIN fetchedFiles(NumVideos) : fetchedFiles(NumVideos)[f].videoId = v

pushedLog ==
  [v \in publishedIds |->
     [title |-> fetchedFiles(NumVideos)[fileOf(v)].title, transcript |-> fileOf(v),
      descriptionFile |-> descriptionFilename(fileOf(v)), pushedAt |-> 3]]

publishedRemote ==
  [v \in VideoIds |->
     LET before == snippet0(CHOOSE n \in 1..NumVideos : Channel[n].videoId = v)
     IN IF v \in publishedIds
        THEN updateSnippet(before, allDescribed[descriptionFilename(fileOf(v))])
        ELSE before]

\* What the operator did to the files before the next run: nothing; removed
\* one entry from one ledger file; deleted one artifact; kept a copy of one
\* transcript file and of its description under another name; left a ledger
\* file that JSON.parse rejects ("syntax", the entries still in the text); or
\* left one that parses to an object without the map of entries ("shape").
HandEdits ==
  { NoEdit }
  \cup { [kind |-> "remove", target |-> "downloaded", key |-> k] :
           k \in DOMAIN fetchedLog(NumVideos) }
  \cup { [kind |-> "remove", target |-> "processedDesc", key |-> k] :
           k \in DOMAIN fetchedFiles(NumVideos) }
  \cup { [kind |-> "remove", target |-> "pushed", key |-> k] : k \in publishedIds }
  \cup { [kind |-> "delete", target |-> "transcripts", key |-> k] :
           k \in DOMAIN fetchedFiles(NumVideos) }
  \cup { [kind |-> "delete", target |-> "descriptions", key |-> k] :
           k \in DOMAIN allDescribed }
  \cup { [kind |-> "copy", target |-> "transcripts", key |-> k] :
           k \in DOMAIN fetchedFiles(NumVideos) }
  \cup { [kind |-> d, target |-> l, key |-> None] :
           d \in {"syntax", "shape"}, l \in {"downloaded", "processedDesc", "pushed"} }

Without(f, k) == [x \in (DOMAIN f) \ {k} |-> f[x]]

edited(e, target, content) ==
  LET copy == <<"c", "o", "p", "y", "_">> \o e.key
  IN IF e.kind \in {"remove", "delete"} /\ e.target = target THEN Without(content, e.key)
     ELSE IF e.kind = "shape" /\ e.target = target THEN EmptyMap
     ELSE IF e.kind = "copy" /\ target = "transcripts"
          THEN Put(content, copy, content[e.key])
     ELSE IF e.kind = "copy" /\ target = "descriptions"
          THEN Put(content, descriptionFilename(copy), content[descriptionFilename(e.key)])
     ELSE content

InitOperator ==
  \E e \in HandEdits :
    /\ edit = e
    /\ transcriptsDir = TRUE
    /\ transcripts = edited(e, "transcripts", fetchedFiles(NumVideos))
    /\ descriptions = edited(e, "descriptions", allDescribed)
    /\ downloaded = edited(e, "downloaded", fetchedLog(NumVideos))
    /\ processedDesc = edited(e, "processedDesc", describedLog(DOMAIN fetchedFiles(NumVideos)))
    /\ pushed = edited(e, "pushed", pushedLog)
    /\ damaged = [l \in Ledgers |->
                    IF e.kind \in {"syntax", "shape"} /\ e.target = l THEN e.kind ELSE "no"]
    /\ summary = fetchedSummary
    /\ remote = publishedRemote
    /\ tokenFile = Token0
    /\ blogPosts = EmptyMap
    /\ processedLog = EmptyMap
    /\ clock = 3
    /\ calls = 0
    /\ pager = NoCall
    /\ InitMemory
    /\ Unobserved

NextOperator ==
  \/ Fetch
  \/ Describe
  \/ Publish
  \/ Kill

SpecOperator == InitOperator /\ [][NextOperator]_vars

\* ================================================================ claims
\* the ledger file of the stage that is running or ran last
DiskLedger ==
  CASE stage = "fetch" -> downloaded
    [] stage = "describe" -> processedDesc
    [] stage = "publish" -> pushed
    [] OTHER -> EmptyMap

\* C1: in every ledgered stage, whenever the runner is about to take the
\* next candidate, every item the run has completed so far has an entry in
\* the ledger file on disk (which is what a kill at that point leaves).
C1_FlushPerItem ==
  (stage \in Stages /\ pc = "loop") => completed \subseteq DOMAIN DiskLedger

\* the position right after a ledger flush
AfterFlush ==
  \/ stage = "fetch" /\ pc = "summary"
  \/ stage = "describe" /\ pc = "done"
  \/ stage = "publish" /\ pc = "delay"

\* C2: in a run started from an empty ledger that has completed at least
\* one item, right after the Nth ledger flush the ledger file holds exactly
\* N entries and exactly N artifacts have been written.
C2_CrashAfterNthFlush ==
  (AfterFlush /\ DOMAIN loaded = {} /\ completed # {}) =>
     /\ Cardinality(DOMAIN DiskLedger) = flushes
     /\ Cardinality(written) = flushes

\* a key that was in the ledger when the run loaded it is left alone
Untouched(k) ==
  /\ k \notin requested
  /\ k \notin written
  /\ k \in DOMAIN DiskLedger
  /\ DiskLedger[k] = loaded[k]

\* C3 (as stated): in every run of every stage, a key that was in the ledger
\* when the run loaded it gets no external request and no artifact write,
\* and its ledger record stays as it was.
C3_RerunSkipsLedgered ==
  stage \in Stages => \A k \in DOMAIN loaded : Untouched(k)

\* C3 (amended): the same, for every run that is not a publish run
\* with --video.
C3_RerunSkipsLedgeredUnlessSingle ==
  (stage \in Stages /\ mode.singleVideo = None) => \A k \in DOMAIN loaded : Untouched(k)

\* a second fetch run that skipped a recorded video and downloaded another
C3_Witness ==
  stage = "fetch" /\ pc = "done" /\ skipped > 0 /\ newDownloads > 0

\* C4: a run that ended by itself (was not killed and met no fatal
\* precondition) has gone through every candidate of its list.
C4_ErrorContained ==
  (stage \in Stages /\ pc \in {"done", "aborted"}) => i > Len(cands)

\* C5: at the end of a completed run the reported counts add up: fetch
\* newDownloads = totalVideos - skipped - transcriptsNotFound, describe
\* processed + skipped + failed = files, publish Success + Errors = Total.
C5_Counts ==
  pc = "done" =>
    /\ stage = "fetch" =>
         /\ Len(summary) = 1
         /\ summary[1].newDownloads = newDownloads
         /\ summary[1].newDownloads =
              summary[1].totalVideos - summary[1].skipped - summary[1].transcriptsNotFound
    /\ stage = "describe" => processed + skipped + failed = Len(cands)
    /\ stage = "publish" => successCount + errorCount = Len(cands)

\* a completed fetch run with a skipped, an unavailable and no other video
C5_Witness ==
  stage = "fetch" /\ pc = "done" /\ skipped > 0 /\ notFound(results) > 0

\* C6: no run that got past its fatal preconditions stops inside its item
\* loop; it goes on to its end-of-run step.
C6_RunReachesEnd ==
  ~(stage \in Stages /\ pc = "aborted" /\ i <= Len(cands))

\* C7: an unavailable transcript leaves ledger and artifacts as they are
\* and is flagged in the results; the video is in no ledger and has no
\* artifact from this run; and a completed enumeration has requested the
\* transcript of every video that was not in the ledger.
C7_Inv ==
  stage = "fetch" =>
    /\ \A j \in 1..Len(results) :
         ~results[j].hasTranscript =>
            /\ results[j].videoId \notin DOMAIN log
            /\ results[j].videoId \notin DOMAIN downloaded
            /\ results[j].videoId \notin written
    /\ pc \in {"summary", "done"} =>
         /\ \A j \in 1..Len(cands) :
              cands[j].videoId \notin DOMAIN loaded => cands[j].videoId \in requested
         /\ notFound(results) = Cardinality(requested \ written)

C7_Step ==
  (stage = "fetch" /\ pc = "transcript" /\ pc' = "delay") =>
     /\ log' = log
     /\ downloaded' = downloaded
     /\ transcripts' = transcripts
     /\ results' = Append(results, [videoId |-> cands[i].videoId,
                                    title |-> cands[i].title,
                                    hasTranscript |-> FALSE])

C7_UnavailableNotRecorded == [] C7_Inv /\ [][C7_Step]_vars

\* a video the previous summary flags as unavailable is requested again
\* and is unavailable again
C7_Witness ==
  /\ stage = "fetch" /\ pc = "delay"
  /\ Len(summary) = 1
  /\ \E j \in 1..Len(summary[1].videos) :
       /\ summary[1].videos[j].videoId = cands[i].videoId
       /\ ~summary[1].videos[j].hasTranscript
  /\ cands[i].videoId \in requested
  /\ Len(results) > 0 /\ ~results[Len(results)].hasTranscript

\* C8: every ledger entry (fetch, describe, MCP processed log; on disk and
\* in memory) names an artifact that has been written, and a step whose
\* artifact write fails adds no entry.  (A ledger is a JSON object, so it
\* holds one record per key by construction.)
C8_Inv ==
  /\ \A v \in DOMAIN downloaded : downloaded[v].filename \in DOMAIN transcripts
  /\ \A f \in DOMAIN processedDesc :
       processedDesc[f].descriptionFile \in DOMAIN descriptions
  /\ \A s \in DOMAIN processedLog : processedLog[s].blogPost \in DOMAIN blogPosts
  /\ stage = "fetch" => \A v \in DOMAIN log : log[v].filename \in DOMAIN transcripts
  /\ stage = "describe" =>
       \A f \in DOMAIN log : log[f].descriptionFile \in DOMAIN descriptions

C8_Step ==
  /\ (stage = "fetch" /\ pc = "write" /\ pc' = "aborted") =>
        (log' = log /\ downloaded' = downloaded)
  /\ (stage = "describe" /\ pc = "loop" /\ failed' = failed + 1) =>
        (log' = log /\ processedDesc' = processedDesc)

C8_EntryAfterArtifact == [] C8_Inv /\ [][C8_Step]_vars

\* a describe run with one failed and one recorded item, after a
\* save_blog_post that was logged
C8_Witness ==
  /\ stage = "describe" /\ pc = "done" /\ failed > 0 /\ processed > 0
  /\ DOMAIN processedLog # {}

\* C9: a publish ledger entry made by a run is for a video whose remote
\* write succeeded in that run, every recorded video has a pushed
\* description at the remote end, and a failed remote read or write adds
\* no entry.
C9_Inv ==
  /\ \A v \in DOMAIN pushed : remote[v].description.hook # <<>>
  /\ stage = "publish" =>
       /\ \A v \in DOMAIN pushed :
            (v \notin DOMAIN loaded \/ pushed[v] # loaded[v]) => v \in written
       /\ \A v \in DOMAIN log :
            (v \notin DOMAIN loaded \/ log[v] # loaded[v]) => v \in written

C9_Step ==
  (stage = "publish" /\ pc \in {"read", "update"} /\ pc' = "loop") =>
     /\ log' = log
     /\ pushed' = pushed
     /\ errorCount' = errorCount + 1

C9_EntryAfterRemoteWrite == [] C9_Inv /\ [][C9_Step]_vars

\* a real publish run with a pushed and a failed video
C9_Witness ==
  /\ stage = "publish" /\ pc = "done" /\ ~mode.dryRun
  /\ successCount > 0 /\ errorCount > 0
  /\ DOMAIN pushed # {}

\* C10: a --dry-run publish run writes nothing at the remote end and leaves
\* the ledger file as it was, so the same command without --dry-run builds
\* the same update list.
C10_Inv ==
  (stage = "publish" /\ mode.dryRun) =>
     /\ written = {}
     /\ flushes = 0
     /\ pushed = loaded
     /\ pc = "done" => buildUpdateList(loadPushLog, mode.singleVideo) = cands

C10_Step ==
  (stage' = "publish" /\ mode'.dryRun) => (pushed' = pushed /\ remote' = remote)

C10_DryRunWritesNothing == [] C10_Inv /\ [][C10_Step]_vars

\* a completed dry run that went through at least one pending item
C10_Witness ==
  stage = "publish" /\ mode.dryRun /\ pc = "done" /\ successCount > 0

\* C11 (as stated): a --dry-run publish run still reads the remote state
\* of every pending item it goes through, as a real run does.
C11_DryRunReadsRemote ==
  (stage = "publish" /\ mode.dryRun /\ pc \in {"loop", "done"}) =>
     \A k \in 1..(i - 1) : cands[k].videoId \in requested

\* C12 (as stated): a publish run that finds no token file has halted
\* without a work list, whatever its mode and whatever is pending.
C12_NoTokenHaltsBeforeScan ==
  (stage = "publish" /\ tokenFile = NoTokens) => (pc = "exited" /\ cands = <<>>)

\* the transcript files that carry video id V and have a description file
describedWithId(V) ==
  { f \in DOMAIN transcripts :
      /\ endsWith(f, MD)
      /\ transcripts[f].videoId = V
      /\ descriptionFilename(f) \in DOMAIN descriptions }

\* C13: with --video V the work list holds exactly the described transcript
\* files whose video id is V, whether or not the ledger has an entry for V,
\* and no item with another id.
C13_VideoRestricts ==
  (stage = "publish" /\ mode.singleVideo # None) =>
     /\ \A k \in 1..Len(cands) : cands[k].videoId = mode.singleVideo
     /\ { cands[k].transcript : k \in 1..Len(cands) } = describedWithId(mode.singleVideo)

\* a --video run for a recorded video, with another video pending
C13_Witness ==
  /\ stage = "publish" /\ mode.singleVideo # None
  /\ mode.singleVideo \in DOMAIN loaded
  /\ Len(cands) = 1
  /\ \E v \in VideoIds : v \notin DOMAIN loaded /\ describedWithId(v) # {}

\* C14: a --list publish run makes no remote call, does not load or rewrite
\* the token file and leaves the ledger file as it was.
C14_Inv ==
  (stage = "publish" /\ mode.listOnly) =>
     /\ requested = {}
     /\ written = {}
     /\ tokens = NoTokens
     /\ flushes = 0
     /\ pushed = loaded
     /\ pc \in Over

C14_Step ==
  (stage' = "publish" /\ mode'.listOnly) =>
     (tokenFile' = tokenFile /\ pushed' = pushed /\ remote' = remote)

C14_ListOnlyEnumerates == [] C14_Inv /\ [][C14_Step]_vars

\* a --list run that listed pending items while a token file exists
C14_Witness ==
  /\ stage = "publish" /\ mode.listOnly /\ pc = "listed"
  /\ Len(cands) > 0
  /\ tokenFile # NoTokens

\* C15: a fetch run halted by a missing variable or by a failed channel
\* lookup has requested no transcript and written no artifact, no ledger
\* file and no summary.
C15_Inv ==
  (stage = "fetch" /\ pc \in {"fatal", "exited"}) =>
     /\ requested = {}
     /\ written = {}
     /\ flushes = 0
     /\ downloaded = loaded
     /\ i = 1

C15_Step ==
  (stage' = "fetch" /\ pc' \in {"fatal", "exited"}) =>
     (transcripts' = transcripts /\ downloaded' = downloaded /\ summary' = summary)

C15_FatalBeforeItems == [] C15_Inv /\ [][C15_Step]_vars

\* a fetch run over a channel that is not found, with an earlier run's
\* ledger and summary on disk
C15_Witness ==
  /\ stage = "fetch" /\ pc = "fatal"
  /\ downloaded # EmptyMap
  /\ summary # <<>>

\* C16 (as stated): a script that ended on a fatal condition ended with a
\* non-zero exit status, and a script that ended otherwise by itself ended
\* with status 0.
C16_FatalExitsNonZero ==
  /\ (stage \in Stages /\ pc \in {"fatal", "exited"}) => exitCode # 0
  /\ (stage \in Stages /\ pc \in {"done", "listed", "nothing"}) => exitCode = 0

\* the number of pages that hold the first n items of a playlist
pagesFor(n) == IF n = 0 THEN 1 ELSE (n + PageSize - 1) \div PageSize

least(a, b) == IF a < b THEN a ELSE b

\* what the claim says of a call with maximum count m on a playlist of
\* "total" items
PagedAsClaimed(p) ==
  IF p.maxResults = <<>>
  THEN /\ p.videos = Playlist(p.total)
       /\ p.requests = pagesFor(p.total)
  ELSE LET m == p.maxResults[1]
       IN /\ p.videos = SubSeq(Playlist(p.total), 1, least(m, p.total))
          /\ p.requests = IF 1 <= m /\ m <= p.total THEN pagesFor(m)
                          ELSE pagesFor(p.total)

\* C17 (as stated): getPlaylistVideos returns all items in catalogue order
\* after asking for every page of 50; with a maximum count m it returns the
\* first min(m, total) items and asks for no page after the one that holds
\* the m-th item.
C17_Paginates ==
  pager.returned => PagedAsClaimed(pager)

\* C17 (amended): the same, for a call without a maximum count or with a
\* maximum count of at least 1.
C17_PaginatesPositiveMax ==
  (pager.returned /\ pager.maxResults # <<0>>) => PagedAsClaimed(pager)

\* a call that stopped on the second of three pages
C17_Witness ==
  /\ pager.returned
  /\ pager.total = 2 * PageSize + 1
  /\ pager.maxResults = <<PageSize + 10>>
  /\ pager.requests = 2
  /\ Len(pager.videos) = PageSize + 10

\* C18 (as stated): the snippet sent by a successful update equals the
\* snippet that was read, except for its description.
C18_Step ==
  (stage = "publish" /\ pc = "update" /\ pc' = "record") =>
     /\ DOMAIN remote'[cands[i].videoId] = DOMAIN currentSnippet
     /\ \A field \in DOMAIN currentSnippet \ {"description"} :
          remote'[cands[i].videoId][field] = currentSnippet[field]
     /\ remote'[cands[i].videoId].description = cands[i].description

C18_WriteBackEchoes == [][C18_Step]_vars

\* C19: when an external call of the publish stage during which the client
\* signalled new tokens has returned its result, the token file holds the
\* loaded record's fields and the new fields, the new fields with their new
\* values.
C19_RefreshWrittenBeforeReturn ==
  (stage = "publish" /\ pc \in {"update", "record"} /\ emitted # NoTokens) =>
     /\ DOMAIN tokenFile = (DOMAIN tokens) \cup (DOMAIN emitted)
     /\ \A field \in DOMAIN emitted : tokenFile[field] = emitted[field]

\* a remote read that returned after a refresh which changed the token file
C19_Witness ==
  /\ stage = "publish" /\ pc = "update"
  /\ emitted # NoTokens
  /\ tokenFile # tokens

\* C20 (as stated): no step of any stage changes or removes a record that a
\* ledger file holds.
C20_Step ==
  /\ \A k \in DOMAIN downloaded :
       k \in DOMAIN downloaded' /\ downloaded'[k] = downloaded[k]
  /\ \A k \in DOMAIN processedDesc :
       k \in DOMAIN processedDesc' /\ processedDesc'[k] = processedDesc[k]
  /\ \A k \in DOMAIN pushed :
       k \in DOMAIN pushed' /\ pushed'[k] = pushed[k]
  /\ \A k \in DOMAIN processedLog :
       k \in DOMAIN processedLog' /\ processedLog'[k] = processedLog[k]

C20_RecordsNeverChange == [][C20_Step]_vars

\* ------------------------------------------------------------------- C22
\* The candidates of the run that the loaded ledger does not hold and for
\* which this run obtained a transcript.
candidateIds == {cands[k].videoId : k \in 1..Len(cands)}

obtained ==
  {v \in candidateIds \ DOMAIN loaded :
     \E j \in 1..Len(results) : results[j].videoId = v /\ results[j].hasTranscript}

C23_SummaryListsAllCandidates ==
  (stage = "fetch" /\ pc = "done") =>
     /\ summary # <<>>
     /\ \A v \in candidateIds :
          \E j \in 1..Len(summary[1].videos) : summary[1].videos[j].videoId = v

\* ------------------------------------------------------------------- C30
\* C30: a pacing delay separates the external calls of two consecutive
\* items, whether the first item succeeded or failed: when the fetch stage
\* is about to request a transcript, or the publish stage is about to read
\* a video, no per-item external call was made since the last delay.
C30_DelayBetweenItems ==
  /\ (stage = "fetch" /\ pc = "transcript") => paced
  /\ (stage = "publish" /\ pc = "read") => paced

\* ------------------------------------------------------------------- C24
\* a hashtag line of at most 3 hashtags, each lower-cased and free of
\* whitespace
WellTagged(description) ==
  /\ Len(description.hashtags) <= 3
  /\ \A k \in 1..Len(description.hashtags) :
       LET tag == description.hashtags[k]
       IN /\ toLowerCase(tag) = tag
          /\ \A c \in 1..Len(tag) : tag[c] \notin Whitespace

described(fn) == probe # NoProbe /\ probe.fn = fn /\ probe.out # <<>>

\* C24: every description, built by the batch describe stage or by the MCP
\* tool generate_description, ends with a hashtag line of at most 3
\* hashtags, each lower-cased and with whitespace removed.
C24_HashtagLine ==
  /\ described("describe") => WellTagged(probe.out[1])
  /\ described("toolDescription") => WellTagged(probe.out[1])

\* ------------------------------------------------------------------- C26
\* C26: the artifact path of the fetch stage is a function of the item's
\* key alone: a video that is processed again is written to the path it was
\* written to before, whatever else of the catalog entry has changed.
C26_PathFromKeyAlone ==
  (described("transcriptFilename") /\ probe.other = probe.videoId) =>
     probe.out[1].first = probe.out[1].second

\* ------------------------------------------------------------------- C25
\* the last tool call was a save_blog_post that succeeded
savedOk == reply.tool = "save_blog_post" /\ ~reply.isError

\* C25: after a successful save_blog_post with filename F, list_blog_posts
\* lists F and read_blog_post(F) returns the content that was written.
C25_SavedPostListedAndRead ==
  savedOk =>
    LET F == probe.args.filename
    IN /\ \E k \in 1..Len(blogPostsListed) : blogPostsListed[k] = F
       /\ blogPostRead(F) = result("read_blog_post",
                                   [header |-> "## Transcript",
                                    body |-> probe.args.content])

\* ------------------------------------------------------------------- C21
\* the ledger file of a stage
ledgerOf(st) ==
  CASE st = "fetch" -> "downloaded"
    [] st = "describe" -> "processedDesc"
    [] st = "publish" -> "pushed"
    [] OTHER -> None

\* a complete run of the stage from whose ledger the operator removed the
\* entry of key edit.key, the key being still unrecorded when the run loaded
\* the ledger
RerunAfterRemoval ==
  /\ edit.kind = "remove"
  /\ stage \in Stages
  /\ edit.target = ledgerOf(stage)
  /\ pc = "done"
  /\ edit.key \notin DOMAIN loaded

C27_NoRunDeletesEntries ==
  (stage \in Stages /\ pc \in Over) => keysAtStart \subseteq DOMAIN ledgerFile(stage)

\* ------------------------------------------------------------------- C28
\* the key of the k-th candidate of the running stage
keyOf(k) == IF stage = "describe" THEN cands[k] ELSE cands[k].videoId

\* the video ids of the transcript files that have a description file
describedIds == { v \in VideoIds : describedWithId(v) # {} }

\* C28: which candidates a run skips is a function of the ledger it loaded
\* (and of its command line), not of the artifacts on disk: the fetch and
\* the describe stage skip exactly the candidates whose key the loaded
\* ledger holds, and the work list of the publish stage is its catalog
\* without the keys the loaded ledger holds (with --video V: the item V of
\* its catalog).
C28_SkipByLedgerOnly ==
  /\ stage \in {"fetch", "describe"} =>
       /\ attempted \cap DOMAIN loaded = {}
       /\ \A k \in 1..(i - 1) : keyOf(k) \notin DOMAIN loaded => keyOf(k) \in attempted
       /\ skipped = Cardinality({ k \in 1..(i - 1) : keyOf(k) \in DOMAIN loaded })
  /\ (stage = "publish" /\ pc \notin {"fatal", "typeError"}) =>
       { cands[k].videoId : k \in 1..Len(cands) }
         = { v \in describedIds : IF mode.singleVideo = None
                                   THEN v \notin DOMAIN loaded
                                   ELSE v = mode.singleVideo }

\* a fetch run that skipped every video although the operator had deleted
\* the transcript file of one of them
C28_Witness ==
  /\ stage = "fetch" /\ pc = "done"
  /\ edit.kind = "delete" /\ edit.target = "transcripts"
  /\ edit.key \notin DOMAIN transcripts
  /\ skipped = NumVideos
  /\ attempted = {}

\* ------------------------------------------------------------------- C29
\* C29: loading a ledger never fails: from a file that cannot be parsed the
\* run loads the empty ledger, and for a file that parses the has(key)
\* checks of the run do not throw.
C29_LoadNeverFails ==
  stage \in Stages =>
     /\ damaged[ledgerOf(stage)] = "syntax" => loaded = EmptyMap
     /\ pc # "typeError"

\* ------------------------------------------------------------------- C31
\* the write of an item is issued only with the result of the item's read
\* in hand, and only read videos are written
C31_Inv ==
  stage = "publish" =>
    /\ pc = "update" =>
         /\ cands[i].videoId \in requested
         /\ currentSnippet = remote[cands[i].videoId]
    /\ written \subseteq requested

\* the remote end changes only in the write step; a read that finds no
\* video (or fails) is counted as an error, writes nothing at the remote end
\* and in the ledger, and hands over to the next item
C31_Step ==
  /\ remote' # remote => (stage = "publish" /\ pc = "update")
  /\ (stage = "publish" /\ pc = "read" /\ pc' # "update" /\ stage' = "publish") =>
       /\ pc' = "loop"
       /\ i' = i + 1
       /\ errorCount' = errorCount + 1
       /\ successCount' = successCount
       /\ remote' = remote
       /\ written' = written
       /\ pushed' = pushed
       /\ log' = log

\* C31: for each item the publish stage pushes, the remote read completes
\* before the remote write is issued; when the read finds no such video no
\* write is issued, the item is counted as an error and gets no ledger
\* entry, and the run continues with the next item.
C31_ReadBeforeWrite == [] C31_Inv /\ [][C31_Step]_vars

\* the read of the first item led to no write and the run went on: the
\* second item has been read and its write is about to be issued
C31_Witness ==
  /\ stage = "publish" /\ pc = "update" /\ i = 2
  /\ errorCount = 1
  /\ cands[1].videoId \in requested \ written
  /\ cands[1].videoId \notin DOMAIN pushed

\* ------------------------------------------------------------------- C32
\* C32: no script takes its candidates from the summary file of an earlier
\* run: what a run works on is the same whatever that file contains, so the
\* candidates of the conversion script are the transcript files on disk,
\* whichever of them the last fetch run listed.
C32_SummaryObservational ==
  (stage = "blog" /\ pc \in {"loop", "done"}) =>
     { cands[k].filepath : k \in 1..Len(cands) } = DOMAIN transcripts

\* ------------------------------------------------------------------- C33
\* the names a list_transcripts result carries
listedNames == { reply.text[k] : k \in 1..Len(reply.text) }

\* what a list_transcripts call answers, against the processed log on disk
C33_Inv ==
  (reply.tool = "list_transcripts" /\ ~reply.isError) =>
     IF probe.args.unprocessed_only
     THEN listedNames \cap DOMAIN processedLog = {}
     ELSE listedNames = { f \in DOMAIN transcripts : endsWith(f, MD) /\ Head(f) # "_" }

\* a save_blog_post that succeeds with sourceTranscript S leaves S in the
\* processed log, one without sourceTranscript leaves the log as it is, and
\* no call removes an entry from the log
C33_Step ==
  /\ DOMAIN processedLog \subseteq DOMAIN processedLog'
  /\ (calls' # calls /\ probe'.tool = "save_blog_post") =>
       IF probe'.args.sourceTranscript = <<>>
       THEN processedLog' = processedLog
       ELSE ~reply'.isError => probe'.args.sourceTranscript \in DOMAIN processedLog'

\* C33: once save_blog_post has succeeded with sourceTranscript S, every
\* later list_transcripts call with unprocessed_only omits S and one without
\* the flag still lists S; a save_blog_post without sourceTranscript leaves
\* the processed log unchanged.
C33_ProcessedHiddenWhenAsked == [] C33_Inv /\ [][C33_Step]_vars

\* a transcript was saved as a post, and a later unprocessed_only listing
\* carries the other transcript only
C33_Witness ==
  /\ reply.tool = "list_transcripts" /\ ~reply.isError
  /\ probe.args.unprocessed_only
  /\ DOMAIN processedLog # {}
  /\ DOMAIN processedLog \subseteq DOMAIN transcripts
  /\ listedNames = DOMAIN transcripts \ DOMAIN processedLog
  /\ listedNames # {}

\* ------------------------------------------------------------------- C34
\* C34: when two save_blog_post requests with different sourceTranscript
\* values are handled with their awaits interleaved and both have returned
\* their result, the processed log on disk holds the entries of both.
C34_NoLostUpdate ==
  LET S1 == inflight[1].args.sourceTranscript
      S2 == inflight[2].args.sourceTranscript
  IN (/\ inflight[1].at = "returned" /\ inflight[2].at = "returned"
      /\ S1 # <<>> /\ S2 # <<>> /\ S1 # S2)
     => {S1, S2} \subseteq DOMAIN processedLog

\* ------------------------------------------------------------------- C35
\* C35: two catalog items with different video ids are never written to the
\* same artifact path, so that no item's transcript file is overwritten by
\* another item's and a run writes as many files as it adds ledger entries.
C35_DistinctPaths ==
  (described("transcriptFilename") /\ probe.other # probe.videoId) =>
     probe.out[1].first # probe.out[1].second

\* ------------------------------------------------------------------- C36
\* a remote write that succeeds is the first of its run for its video
C36_Step ==
  (stage = "publish" /\ pc = "update" /\ pc' = "record") =>
     cands[i].videoId \notin written

\* C36: within one publish run every video id receives at most one remote
\* write, whatever the transcripts directory holds (two transcript files
\* that carry the same Video ID included).
C36_OneWritePerVideo == [][C36_Step]_vars

\* ------------------------------------------------------------------- C37
\* a refresh leaves every field it does not carry as the token file held it
C37_Step ==
  (stage = "publish" /\ tokenFile' # tokenFile) =>
     \A field \in DOMAIN tokenFile :
        field \notin DOMAIN emitted' => tokenFile'[field] = tokenFile[field]

\* C37: after any sequence of credential refreshes during one publish run
\* the token file holds, for every field, the value issued last: a refresh
\* that omits a field does not put back the value loaded at the start of the
\* run in place of one an earlier refresh delivered.
C37_FreshestTokens == [][C37_Step]_vars

\* ------------------------------------------------------------------- C39
samePaths ==
  /\ probe.out[1].describe = probe.out[1].tool
  /\ probe.out[1].tool = probe.out[1].publish

\* C39 as stated: for every transcript file name the describe stage, the MCP
\* tool generate_description with save = true and the publish stage use the
\* same description path.
C39_SamePathsAlways == described("descriptionPaths") => samePaths

\* C39: for every transcript file name the description path the describe
\* stage writes and the path the publish stage looks up are the same, and
\* the path generate_description writes with save = true is that path too
\* when the MCP server runs with DESCRIPTIONS_DIR unset, empty or set to
\* ./descriptions.
C39_SamePaths ==
  (described("descriptionPaths")
     /\ toolDescriptionsDir(probe.env) = "./descriptions") => samePaths

C39_Witness ==
  /\ described("descriptionPaths")
  /\ probe.env = <<"">>
  /\ probe.file = <<"a", ".", "m", "d", "-", "b">> \o MD
  /\ probe.out[1].publish = <<"./descriptions", <<"a">> \o DESC \o <<"-", "b">> \o MD>>

\* ------------------------------------------------------------------- C38
\* C38: the video id the describe and the publish stage read back from the
\* transcript file the fetch stage writes for a video is that video's id,
\* whatever its title.
C38_HandOffRoundTrip ==
  described("handOff") =>
     /\ probe.out[1].describe = <<probe.videoId>>
     /\ probe.out[1].publish = <<probe.videoId>>

\* ------------------------------------------------------------------- C40
\* the cases of the tool handler the model has
KnownTools == {"save_blog_post", "list_blog_posts", "read_blog_post", "list_transcripts"}

\* the call probe' records: its post or its log entry is not on disk after it
postMissing ==
  \/ probe'.args.filename \notin DOMAIN blogPosts'
  \/ blogPosts'[probe'.args.filename].body # probe'.args.content

entryMissing ==
  /\ probe'.args.sourceTranscript # <<>>
  /\ \/ probe'.args.sourceTranscript \notin DOMAIN processedLog'
     \/ processedLog'[probe'.args.sourceTranscript].blogPost # probe'.args.filename

C40_Step ==
  (calls' = calls + 1) =>
     /\ reply'.tool = probe'.tool
     /\ reply'.isError => reply'.text # <<>>
     /\ probe'.tool \notin KnownTools => reply'.isError
     /\ (probe'.tool = "read_blog_post" /\ probe'.args.filename \notin DOMAIN blogPosts)
          => reply'.isError
     /\ (probe'.tool = "save_blog_post" /\ (postMissing \/ entryMissing))
          => reply'.isError
     /\ (probe'.tool = "save_blog_post" /\ reply'.isError)
          => (processedLog' = processedLog /\ damaged' = damaged)

\* C40: every tool call of the MCP server returns a result: a call that
\* fails (a file that is not there, a tool name the server does not have,
\* a write that fails) returns a result flagged isError that carries the
\* error text, and a save_blog_post that fails leaves the processed log as
\* it was.
C40_ErrorsAreResults == [][C40_Step]_vars

C40_Witness ==
  /\ reply.isError
  /\ reply.tool = "save_blog_post"
  /\ probe.args.sourceTranscript # <<>>
  /\ probe.args.filename \in DOMAIN blogPosts
  /\ blogPosts[probe.args.filename].body = probe.args.content
  /\ probe.args.sourceTranscript \notin DOMAIN processedLog

====
